---- MODULE Spec2Model ----
(***************************************************************************)
(* A model of libs/dfaregex.py: the regular-expression parser, the tree   *)
(* simplifier, the NFA compiler, the subset construction and the matcher.  *)
(*                                                                         *)
(* Strings are sequences of one-character strings.  A tree node is a       *)
(* record [kind, value, children]: the python tuples ('literal', c),       *)
(* ('kleene', child), ('concat', [..]) and ('alternate', [..]).  A python  *)
(* dict is a function whose DOMAIN is the dict's key set.                  *)
(***************************************************************************)
EXTENDS Integers, Sequences, FiniteSets, TLC

\* ------------------------------------------------------------------ bounds

\* longest pattern over CoreChars drawn by Init
MaxLen == 4
\* longest pattern over FullChars drawn by InitParser
MaxFullLen == 3
\* largest repeat count m, n written in the 'x{m,n}' patterns drawn by Init
MaxCount == 3
\* longest input string handed to _match
MaxData == 4
\* largest number of nodes of a tree drawn by InitSimplify
MaxNodes == 5
\* longest pattern over AnchorChars drawn by Init
MaxAnchorLen == 3
\* longest pattern drawn for a call that follows another call
MaxCallLen == 2
\* most items put on a queue
MaxPuts == 3
\* largest priority of an item
MaxPriority == 1
\* most limit_to contexts entered at a time
MaxContexts == 2
\* most resources made for a pool
MaxResources == 2
\* most resources waiting in to_clean
MaxPending == 2
\* largest state in the start set given to _to_nfa
MaxStart == 2
\* most nodes of a tree given to _to_nfa
MaxCompileNodes == 3
\* longest text between the braces of a '{...}' operator drawn by InitParser
MaxBrace == 3
\* longest text between the brackets of a '[...]' class drawn by InitParser
MaxClass == 3
\* largest number of literals in the tree of a '[x-y]' pattern drawn by Init
MaxClassSize == 4

\* ------------------------------------------------------------- characters

\* chr/ord over the characters the model knows (ASCII code points)
OrdTable ==
    [c \in {"$", "(", ")", "*", "+", ",", "-", ".", "0", "1", "2", "3", "4",
            "5", "6", "7", "8", "9", "?", "[", "\\", "]", "^", "a", "b",
            "{", "|", "}"} |->
        CASE c = "$" -> 36 [] c = "(" -> 40 [] c = ")" -> 41 [] c = "*" -> 42
          [] c = "+" -> 43 [] c = "," -> 44 [] c = "-" -> 45 [] c = "." -> 46
          [] c = "0" -> 48 [] c = "1" -> 49 [] c = "2" -> 50 [] c = "3" -> 51
          [] c = "4" -> 52 [] c = "5" -> 53 [] c = "6" -> 54 [] c = "7" -> 55
          [] c = "8" -> 56 [] c = "9" -> 57 [] c = "?" -> 63 [] c = "[" -> 91
          [] c = "\\" -> 92 [] c = "]" -> 93 [] c = "^" -> 94 [] c = "a" -> 97
          [] c = "b" -> 98 [] c = "{" -> 123 [] c = "|" -> 124
          [] c = "}" -> 125]

ord(c) == OrdTable[c]

\* all_chars of _parse, restricted to the characters of the model
all_chars == DOMAIN OrdTable

Digits == {"0", "1", "2", "3", "4", "5", "6", "7", "8", "9"}

DigitValue(c) == ord(c) - 48

DigitChar(n) == CHOOSE c \in Digits : DigitValue(c) = n

\* the characters input strings are made of
DataChars == {"a", "b"}

\* the characters of the patterns drawn by Init
CoreChars == {"a", "b", "(", ")", "|", "*"}

\* the characters of the patterns drawn by InitParser
FullChars == {"a", "b", "(", ")", "|", "*", "+", "?", "{", "}", ",", "1",
              ".", "[", "]", "\\", "^", "$", "-"}

\* sequences over S of length at most n
SeqsUpTo(S, n) == UNION {[1..k -> S] : k \in 0..n}

\* ------------------------------------------------------------------ trees

Literal(c) == [kind |-> "literal", value |-> c, children |-> <<>>]

Kleene(t) == [kind |-> "kleene", value |-> "", children |-> <<t>>]

Concat(cs) == [kind |-> "concat", value |-> "", children |-> cs]

Alternate(cs) == [kind |-> "alternate", value |-> "", children |-> cs]

EmptyConcat == Concat(<<>>)

\* [value] * n of python
RECURSIVE Repeat(_, _)
Repeat(value, n) == IF n <= 0 THEN <<>> ELSE <<value>> \o Repeat(value, n - 1)

\* the elements of a set of characters as a list, by code point
RECURSIVE SortedChars(_)
SortedChars(S) ==
    IF S = {} THEN <<>>
    ELSE LET c == CHOOSE x \in S : \A y \in S : ord(x) <= ord(y)
         IN  <<c>> \o SortedChars(S \ {c})

\* ----------------------------------------------------------------- parser

\* what a parsing step returns: an exception (err # "none") or a value
Raise(kind, msg) ==
    [err |-> kind, msg |-> msg, tree |-> EmptyConcat, data |-> <<>>,
     c |-> "", chars |-> <<>>, negate |-> FALSE, num |-> 0]

Return(tree, data) ==
    [err |-> "none", msg |-> "", tree |-> tree, data |-> data,
     c |-> "", chars |-> <<>>, negate |-> FALSE, num |-> 0]

ParseError(msg) == Raise("ParseError", msg)

AssertionError(msg) == Raise("AssertionError", msg)

\* eat(n=1, errormsg): the next character and the remaining data
eat(data, errormsg) ==
    IF Len(data) < 1
    THEN IF errormsg = ""
         THEN AssertionError("eat hit EOF but no error msg given")
         ELSE ParseError(errormsg)
    ELSE [Return(EmptyConcat, Tail(data)) EXCEPT !.c = Head(data)]

\* int(s) of python for a string over the model's characters: an optional
\* sign followed by one or more digits; anything else is a ValueError
RECURSIVE DigitsValue(_, _)
DigitsValue(s, acc) ==
    IF s = <<>> THEN acc
    ELSE DigitsValue(Tail(s), acc * 10 + DigitValue(Head(s)))

IsDigits(s) == s # <<>> /\ \A i \in 1..Len(s) : s[i] \in Digits

int(s) ==
    IF s # <<>> /\ Head(s) \in {"+", "-"}
    THEN IF IsDigits(Tail(s))
         THEN [ok |-> TRUE,
               value |-> IF Head(s) = "-" THEN 0 - DigitsValue(Tail(s), 0)
                         ELSE DigitsValue(Tail(s), 0)]
         ELSE [ok |-> FALSE, value |-> 0]
    ELSE IF IsDigits(s)
         THEN [ok |-> TRUE, value |-> DigitsValue(s, 0)]
         ELSE [ok |-> FALSE, value |-> 0]

_parse_num(s) ==
    LET v == int(s)
    IN  IF v.ok /\ v.value >= 0
        THEN [Return(EmptyConcat, <<>>) EXCEPT !.num = v.value]
        ELSE ParseError("Repeat operator must be given up to two non-negative integers")

\* the marker the character-set loop leaves for an unescaped '-'
RangeMark == "range"

Unmark(c) == IF c = RangeMark THEN "-" ELSE c

\* the first loop of the '[' branch: collect the characters up to the ']'.
\* One iteration appends what it read to chars (an escaped character as it
\* is, an unescaped '-' as the range marker, nothing for the negating '^').
RECURSIVE CollectChars(_, _, _, _)

\* a variant of CollectChars that ends the set at a ']' even when no
\* character was collected yet
CollectCharsAnyClose(data, chars, negate, first) ==
    LET e == eat(data, "Unterminated character set")
        e2 == eat(e.data, "Unterminated escape")
        escaped == e.c = "\\"
        negating == ~escaped /\ first /\ e.c = "^"
        after == IF escaped THEN e2.data ELSE e.data
        appended == IF escaped THEN Append(chars, e2.c)
                    ELSE IF negating THEN chars
                    ELSE IF e.c = "-" THEN Append(chars, RangeMark)
                    ELSE Append(chars, e.c)
    IN  IF e.err # "none" THEN e
        ELSE IF e.c = "]"
        THEN [Return(EmptyConcat, e.data) EXCEPT !.chars = chars, !.negate = negate]
        ELSE IF escaped /\ e2.err # "none" THEN e2
        ELSE CollectChars(after, appended, negate \/ negating, FALSE)

CollectChars(data, chars, negate, first) ==
    LET e == eat(data, "Unterminated character set")
        e2 == eat(e.data, "Unterminated escape")
        escaped == e.c = "\\"
        negating == ~escaped /\ first /\ e.c = "^"
        after == IF escaped THEN e2.data ELSE e.data
        appended == IF escaped THEN Append(chars, e2.c)
                    ELSE IF negating THEN chars
                    ELSE IF e.c = "-" THEN Append(chars, RangeMark)
                    ELSE Append(chars, e.c)
    IN  IF e.err # "none" THEN e
        ELSE IF chars # <<>> /\ e.c = "]"
        THEN [Return(EmptyConcat, e.data) EXCEPT !.chars = chars, !.negate = negate]
        ELSE IF escaped /\ e2.err # "none" THEN e2
        ELSE CollectChars(after, appended, negate \/ negating, FALSE)

\* the second loop of the '[' branch: resolve the ranges into a set
RECURSIVE ResolveRanges(_, _)
ResolveRanges(chars, charset) ==
    IF Len(chars) >= 3
    THEN LET start == Unmark(chars[1])
             end == Unmark(chars[3])
         IN  IF chars[2] = RangeMark
             THEN IF ord(start) > ord(end)
                  THEN ParseError("Character range end must be after start")
                  ELSE ResolveRanges(SubSeq(chars, 4, Len(chars)),
                           charset \cup {ch \in all_chars :
                                           ord(start) <= ord(ch) /\ ord(ch) <= ord(end)})
             ELSE ResolveRanges(Tail(chars), charset \cup {start})
    ELSE [Return(EmptyConcat, <<>>) EXCEPT
             !.chars = SortedChars(charset \cup {Unmark(chars[i]) : i \in 1..Len(chars)})]

\* the loop of the '{' branch: the text up to the '}'
RECURSIVE CollectRepeat(_, _)
CollectRepeat(data, repeat_data) ==
    LET e == eat(data, "Unterminated repeat operator")
    IN  IF e.err # "none" THEN e
        ELSE IF e.c = "}"
        THEN [Return(EmptyConcat, e.data) EXCEPT !.chars = repeat_data]
        ELSE CollectRepeat(e.data, Append(repeat_data, e.c))

\* repeat_data.split(',', 1)
CommaAt(s) == CHOOSE i \in 1..Len(s) : s[i] = "," /\ \A j \in 1..(i - 1) : s[j] # ","

HasComma(s) == \E i \in 1..Len(s) : s[i] = ","

\* most = None
Unbounded == 0 - 1

\* least, most of the operator c (after the text of a '{' operator was read)
RepeatBounds(c, repeat_data) ==
    IF c = "{"
    THEN LET least == IF HasComma(repeat_data)
                      THEN SubSeq(repeat_data, 1, CommaAt(repeat_data) - 1)
                      ELSE repeat_data
             most == IF HasComma(repeat_data)
                     THEN SubSeq(repeat_data, CommaAt(repeat_data) + 1, Len(repeat_data))
                     ELSE repeat_data
             l == IF least # <<>> THEN _parse_num(least)
                  ELSE [Return(EmptyConcat, <<>>) EXCEPT !.num = 0]
             m == IF most # <<>> THEN _parse_num(most)
                  ELSE [Return(EmptyConcat, <<>>) EXCEPT !.num = Unbounded]
         IN  IF l.err # "none" THEN l
             ELSE IF m.err # "none" THEN m
             ELSE [least |-> l.num, most |-> m.num, err |-> "none"]
    ELSE IF c = "?" THEN [least |-> 0, most |-> 1, err |-> "none"]
    ELSE IF c = "*" THEN [least |-> 0, most |-> Unbounded, err |-> "none"]
    ELSE IF c = "+" THEN [least |-> 1, most |-> Unbounded, err |-> "none"]
    ELSE AssertionError("assert False")

\* a variant of ApplyRepeat that appends most optional copies, not most - least
ApplyRepeatNoSubtract(parts, b) ==
    LET value == parts[Len(parts)]
        rest == SubSeq(parts, 1, Len(parts) - 1)
    IN  rest \o Repeat(value, b.least) \o
        (IF b.most = Unbounded
         THEN <<Kleene(value)>>
         ELSE Repeat(Alternate(<<EmptyConcat, value>>), b.most))

\* the parts after a repeat operator with bounds b was applied to their last
\* element (pop, then the copies)
ApplyRepeat(parts, b) ==
    LET value == parts[Len(parts)]
        rest == SubSeq(parts, 1, Len(parts) - 1)
    IN  rest \o Repeat(value, b.least) \o
        (IF b.most = Unbounded
         THEN <<Kleene(value)>>
         ELSE Repeat(Alternate(<<EmptyConcat, value>>), b.most - b.least))

\* the tree _parse returns: an alternate of one concat per alternative
CloseAlternates(alternates, parts) ==
    Alternate([i \in 1..(Len(alternates) + 1) |->
                 Concat(Append(alternates, parts)[i])])

\* what one iteration of the while loop of _parse leaves: the loop goes on
\* with (data, alternates, parts), or it ends with a result (a raise, or the
\* break at ')')
Continue(data, alternates, parts) ==
    [done |-> FALSE, result |-> Return(EmptyConcat, <<>>),
     data |-> data, alternates |-> alternates, parts |-> parts]

Stop(result) ==
    [done |-> TRUE, result |-> result,
     data |-> <<>>, alternates |-> <<>>, parts |-> <<>>]

\* a variant of CloseBranch that forgets to re-append the ')' it took
CloseBranchDropped(c, data, alternates, parts) ==
    Stop(Return(CloseAlternates(alternates, parts), data))

\* the ')' branch: re-append the ')' just taken and break
CloseBranch(c, data, alternates, parts) ==
    Stop(Return(CloseAlternates(alternates, parts), <<c>> \o data))

\* the '(' branch, after the nested _parse returned sub
GroupBranch(sub, close, alternates, parts) ==
    IF sub.err # "none" THEN Stop(sub)
    ELSE IF close.err # "none" THEN Stop(close)
    ELSE IF close.c # ")" THEN Stop(AssertionError("assert close == ')'"))
    ELSE Continue(close.data, alternates, Append(parts, sub.tree))

\* the '.' and '[' branch, after the characters were collected (col) and the
\* ranges resolved (res)
ClassBranch(col, res, alternates, parts) ==
    LET charset == IF col.negate
                   THEN SortedChars(all_chars \ {res.chars[i] : i \in 1..Len(res.chars)})
                   ELSE res.chars
    IN  IF col.err # "none" THEN Stop(col)
        ELSE IF res.err # "none" THEN Stop(res)
        ELSE Continue(col.data, alternates,
                 Append(parts, Alternate([i \in 1..Len(charset) |-> Literal(charset[i])])))

\* a variant of RepeatBranch that does not compare most with least
RepeatBranchUnordered(rep, b, alternates, parts) ==
    IF rep.err # "none" THEN Stop(rep)
    ELSE IF b.err # "none" THEN Stop(b)
    ELSE IF parts = <<>>
    THEN Stop(ParseError("Unary operator must follow a value"))
    ELSE Continue(rep.data, alternates, ApplyRepeat(parts, b))

\* the repeat-operator branch, after the operator's text was read (rep) and
\* its bounds b worked out
RepeatBranch(rep, b, alternates, parts) ==
    IF rep.err # "none" THEN Stop(rep)
    ELSE IF b.err # "none" THEN Stop(b)
    ELSE IF b.most # Unbounded /\ b.most < b.least
    THEN Stop(ParseError("Repeat operator maximum must be >= minimum"))
    ELSE IF parts = <<>>
    THEN Stop(ParseError("Unary operator must follow a value"))
    ELSE Continue(rep.data, alternates, ApplyRepeat(parts, b))

\* a variant of EscapeBranch that takes a backslash at the end of the pattern
\* as a literal backslash
EscapeBranchAtEnd(e2, alternates, parts) ==
    IF e2.err # "none" THEN Continue(<<>>, alternates, Append(parts, Literal("\\")))
    ELSE Continue(e2.data, alternates, Append(parts, Literal(e2.c)))

\* the literal branch for an escape, after the escaped character was eaten
EscapeBranch(e2, alternates, parts) ==
    IF e2.err # "none" THEN Stop(e2)
    ELSE Continue(e2.data, alternates, Append(parts, Literal(e2.c)))

\* a variant of Token that keeps '^' and '$' as they are
TokenVerbatim(c) == c

\* the value of the literal an unescaped character c stands for
Token(c) == IF c = "^" THEN "START" ELSE IF c = "$" THEN "END" ELSE c

RepeatText(c, data) ==
    IF c = "{" THEN CollectRepeat(data, <<>>) ELSE Return(EmptyConcat, data)

RECURSIVE ParseLoop(_, _, _)
RECURSIVE ParseIteration(_, _, _, _)
RECURSIVE LoopOn(_)
RECURSIVE GroupOf(_, _, _)
RECURSIVE ClassOf(_, _, _)
RECURSIVE RepeatOf(_, _, _, _)

GroupOf(sub, alternates, parts) ==
    GroupBranch(sub, eat(sub.data, "Unterminated group"), alternates, parts)

ClassOf(col, alternates, parts) ==
    ClassBranch(col, ResolveRanges(col.chars, {}), alternates, parts)

RepeatOf(c, rep, alternates, parts) ==
    RepeatBranch(rep, RepeatBounds(c, rep.chars), alternates, parts)

\* the body of the while loop of _parse, after c, data = eat()
ParseIteration(c, data, alternates, parts) ==
    IF c = "("
    THEN GroupOf(ParseLoop(data, <<>>, <<>>), alternates, parts)
    ELSE IF c = ")"
    THEN CloseBranch(c, data, alternates, parts)
    ELSE IF c = "|"
    THEN Continue(data, Append(alternates, parts), <<>>)
    ELSE IF c = "."
    THEN ClassOf([Return(EmptyConcat, data) EXCEPT !.negate = TRUE], alternates, parts)
    ELSE IF c = "["
    THEN ClassOf(CollectChars(data, <<>>, FALSE, TRUE), alternates, parts)
    ELSE IF c \in {"*", "+", "{", "?"}
    THEN RepeatOf(c, RepeatText(c, data), alternates, parts)
    ELSE IF c = "\\"
    THEN EscapeBranch(eat(data, "Unterminated escape"), alternates, parts)
    ELSE Continue(data, alternates, Append(parts, Literal(Token(c))))

LoopOn(it) ==
    IF it.done THEN it.result ELSE ParseLoop(it.data, it.alternates, it.parts)

\* c, data = eat() at the head of the loop body
AfterEat(e, alternates, parts) ==
    IF e.err # "none" THEN Stop(e)
    ELSE ParseIteration(e.c, e.data, alternates, parts)

\* _parse: the while loop, from the state (data, alternates, parts)
ParseLoop(data, alternates, parts) ==
    IF data = <<>> THEN Return(CloseAlternates(alternates, parts), data)
    ELSE LoopOn(AfterEat(eat(data, ""), alternates, parts))

_parse(data) == ParseLoop(data, <<>>, <<>>)

\* --------------------------------------------------------------- simplify

\* children with the children of like-kind nodes spliced in
RECURSIVE FlattenChildren(_, _)
FlattenChildren(kind, children) ==
    IF children = <<>> THEN <<>>
    ELSE (IF Head(children).kind = kind
          THEN Head(children).children
          ELSE <<Head(children)>>) \o FlattenChildren(kind, Tail(children))

InList(x, list) == \E i \in 1..Len(list) : list[i] = x

\* the alternate-specific loop: drop duplicates, and the empty concat if any
\* child is a kleene
RECURSIVE DedupChildren(_, _, _)
DedupChildren(children, new_children, has_kleene) ==
    IF children = <<>> THEN new_children
    ELSE IF InList(Head(children), new_children)
    THEN DedupChildren(Tail(children), new_children, has_kleene)
    ELSE IF has_kleene /\ Head(children) = EmptyConcat
    THEN DedupChildren(Tail(children), new_children, has_kleene)
    ELSE DedupChildren(Tail(children), Append(new_children, Head(children)), has_kleene)

\* a variant of SimplifyContainer that tests for a single child before the
\* duplicates are dropped
SimplifyContainerEarlySingle(kind, flat, children) ==
    IF kind = "alternate" /\ flat = <<>>
    THEN EmptyConcat
    ELSE IF Len(flat) = 1
    THEN flat[1]
    ELSE [kind |-> kind, value |-> "", children |-> children]

\* _simplify of an alternate or a concat, after its children were simplified
\* and flattened (flat) and, for an alternate, the duplicates dropped (children)
SimplifyContainer(kind, flat, children) ==
    IF kind = "alternate" /\ flat = <<>>
    THEN EmptyConcat
    ELSE IF Len(children) = 1
    THEN children[1]
    ELSE [kind |-> kind, value |-> "", children |-> children]

HasKleene(children) == \E i \in 1..Len(children) : children[i].kind = "kleene"

SimplifyFlat(kind, flat) ==
    SimplifyContainer(kind, flat,
        IF kind = "alternate" THEN DedupChildren(flat, <<>>, HasKleene(flat)) ELSE flat)

\* a variant of SimplifyKleene without the double-kleene rule
SimplifyKleeneNoAbsorb(child) ==
    IF child = EmptyConcat THEN child ELSE Kleene(child)

\* _simplify of a kleene, after its child was simplified
SimplifyKleene(child) ==
    IF child.kind = "kleene" THEN child
    ELSE IF child = EmptyConcat THEN child
    ELSE Kleene(child)

RECURSIVE _simplify(_)
_simplify(tree) ==
    IF tree.kind \in {"alternate", "concat"}
    THEN SimplifyFlat(tree.kind,
             FlattenChildren(tree.kind,
                 [i \in 1..Len(tree.children) |-> _simplify(tree.children[i])]))
    ELSE IF tree.kind = "kleene"
    THEN SimplifyKleene(_simplify(tree.children[1]))
    ELSE tree

\* a variant of ParseResult that does not look at the remainder
ParseResultAnyRemainder(r) ==
    IF r.err # "none" THEN r ELSE Return(_simplify(r.tree), <<>>)

\* parse, after _parse returned r: the test of the remainder, _simplify
ParseResult(r) ==
    IF r.err # "none" THEN r
    ELSE IF r.data # <<>>
    THEN IF r.data[1] # ")"
         THEN AssertionError("assert remainder[0] == ')'")
         ELSE ParseError("Close parenthesis without matching open parenthesis")
    ELSE Return(_simplify(r.tree), <<>>)

parse(data) == ParseResult(_parse(data))

\* ---------------------------------------------------------------- to_text

wrap(s) == <<"(">> \o s \o <<")">>

\* sep.join(texts)
RECURSIVE Join(_, _)
Join(sep, texts) ==
    IF texts = <<>> THEN <<>>
    ELSE IF Len(texts) = 1 THEN texts[1]
    ELSE Join(sep, SubSeq(texts, 1, Len(texts) \div 2)) \o sep
         \o Join(sep, SubSeq(texts, Len(texts) \div 2 + 1, Len(texts)))

\* the characters to_text writes with a backslash
escape == {"+", "*", "?", "{", ".", "[", "(", ")", "|", "\\"}

RECURSIVE to_text(_)
to_text(tree) ==
    IF tree.kind = "alternate"
    THEN Join(<<"|">>, [i \in 1..Len(tree.children) |-> to_text(tree.children[i])])
    ELSE IF tree.kind = "concat"
    THEN Join(<<>>, [i \in 1..Len(tree.children) |->
                        IF tree.children[i].kind = "alternate"
                        THEN wrap(to_text(tree.children[i]))
                        ELSE to_text(tree.children[i])])
    ELSE IF tree.kind = "kleene"
    THEN (IF tree.children[1].kind \in {"alternate", "concat"}
          THEN wrap(to_text(tree.children[1]))
          ELSE to_text(tree.children[1])) \o <<"*">>
    ELSE IF tree.value = "START" THEN <<"^">>
    ELSE IF tree.value = "END" THEN <<"$">>
    ELSE IF tree.value \in escape THEN <<"\\", tree.value>>
    ELSE <<tree.value>>

\* -------------------------------------------------------------------- NFA

\* {}: the empty dict
EmptyDict == [k \in {} |-> {}]

\* d.get(key, {}) for a dict of dicts, d.get(key, frozenset()) for a dict of sets
GetDict(d, key) == IF key \in DOMAIN d THEN d[key] ELSE EmptyDict

GetSet(d, key) == IF key \in DOMAIN d THEN d[key] ELSE {}

\* a variant of _multimap_merge in which d2's value replaces d1's (dict.update)
_multimap_merge_update(d1, d2) ==
    [key \in DOMAIN d1 \cup DOMAIN d2 |->
        IF key \in DOMAIN d2 THEN d2[key] ELSE d1[key]]

_multimap_merge(d1, d2) ==
    [key \in DOMAIN d1 \cup DOMAIN d2 |-> GetSet(d1, key) \cup GetSet(d2, key)]

_nfa_merge(g1, g2) ==
    [state \in DOMAIN g1 \cup DOMAIN g2 |->
        _multimap_merge(GetDict(g1, state), GetDict(g2, state))]

\* a set of state ids in the order python iterates it: ids below the size of
\* the hash table sit in the slot of their own value, so the order is ascending
RECURSIVE IterOrder(_)
IterOrder(S) ==
    IF S = {} THEN <<>>
    ELSE LET m == CHOOSE x \in S : \A y \in S : x <= y
         IN  <<m>> \o IterOrder(S \ {m})

\* one pass of the body of the loop over news in _nfa_merge_states
MergeStateInto(graph, old, new) ==
    IF old = new THEN graph
    ELSE LET merged == [state \in DOMAIN graph \cup {new} |->
                           IF state = new
                           THEN _multimap_merge(GetDict(graph, new), GetDict(graph, old))
                           ELSE graph[state]]
         IN  [state \in DOMAIN merged |->
                [input \in DOMAIN merged[state] |->
                    IF old \in merged[state][input]
                    THEN (merged[state][input] \ {old}) \cup {new}
                    ELSE merged[state][input]]]

RECURSIVE MergeStateLoop(_, _, _)
MergeStateLoop(graph, old, news) ==
    IF news = <<>> THEN graph
    ELSE MergeStateLoop(MergeStateInto(graph, old, Head(news)), old, Tail(news))

\* a variant of _nfa_merge_states that copies the transitions of old into the
\* new states and leaves the references to old as they are
_nfa_merge_states_no_redirect(graph, old, news) ==
    LET g == [state \in DOMAIN graph \cup (news \ {old}) |->
                 IF state \in news \ {old}
                 THEN _multimap_merge(GetDict(graph, state), GetDict(graph, old))
                 ELSE graph[state]]
    IN  IF old \notin news
        THEN [state \in DOMAIN g \ {old} |-> g[state]]
        ELSE g

_nfa_merge_states(graph, old, news) ==
    LET g == MergeStateLoop(graph, old, IterOrder(news))
    IN  IF old \notin news
        THEN [state \in DOMAIN g \ {old} |-> g[state]]
        ELSE g

\* the loop over child_ends of the kleene branch
RECURSIVE MergeEnds(_, _, _)
MergeEnds(graph, ends, starts) ==
    IF ends = <<>> THEN graph
    ELSE MergeEnds(_nfa_merge_states(graph, Head(ends), starts), Tail(ends), starts)

\* _to_nfa with the state generator as the next id to hand out: returns the
\* end states, the graph and the generator's next id
RECURSIVE _to_nfa(_, _, _)
RECURSIVE ConcatLoop(_, _, _, _)
RECURSIVE AlternateLoop(_, _, _, _, _)

ConcatLoop(children, next_starts, graph, next_state) ==
    IF children = <<>>
    THEN [ends |-> next_starts, graph |-> graph, next_state |-> next_state]
    ELSE LET r == _to_nfa(Head(children), next_starts, next_state)
         IN  ConcatLoop(Tail(children), r.ends, _nfa_merge(graph, r.graph), r.next_state)

AlternateLoop(children, starts, ends, graph, next_state) ==
    IF children = <<>>
    THEN [ends |-> ends, graph |-> graph, next_state |-> next_state]
    ELSE LET r == _to_nfa(Head(children), starts, next_state)
         IN  AlternateLoop(Tail(children), starts, ends \cup r.ends,
                           _nfa_merge(graph, r.graph), r.next_state)

_to_nfa(tree, starts, next_state) ==
    IF tree.kind = "literal"
    THEN [ends |-> {next_state},
          graph |-> [start \in starts |-> [value \in {tree.value} |-> {next_state}]],
          next_state |-> next_state + 1]
    ELSE IF tree.kind = "kleene"
    THEN LET r == _to_nfa(tree.children[1], starts, next_state)
         IN  [ends |-> starts,
              graph |-> MergeEnds(r.graph, IterOrder(r.ends), starts),
              next_state |-> r.next_state]
    ELSE IF tree.kind = "concat"
    THEN ConcatLoop(tree.children, starts, EmptyDict, next_state)
    ELSE AlternateLoop(tree.children, starts, {}, EmptyDict, next_state)

\* a variant of to_nfa whose state generator starts at 0 (itertools.count())
to_nfa_count_from_zero(tree) == _to_nfa(tree, {0}, 0)

to_nfa(tree) == _to_nfa(tree, {0}, 1)

\* ------------------------------------------------------------------ state

VARIABLES
    pc,             \* where the call is
    pattern,        \* match's and parse's argument
    tree,           \* the tree parse returned, or _simplify's argument and result
    raised,         \* the exception that ended the call: [kind, msg]
    target_states,  \* to_nfa's accepting set
    nfa,            \* to_nfa's graph
    dfa,            \* _to_dfa: {subset: {input: subset}}
    to_expand,      \* _to_dfa: the pending subsets
    expanded,       \* _to_dfa: the subsets already expanded
    data,           \* _match's input string
    pos,            \* _match: the number of characters consumed
    state,          \* _match: the current subset
    result,         \* what match returned
    text,           \* to_text(tree)
    reparsed,       \* what parse(to_text(tree)) returned
    passes,         \* how many times _simplify was applied to tree
    starts          \* _to_nfa's argument starts

regexVars == <<pc, pattern, tree, raised, target_states, nfa, dfa, to_expand,
               expanded, data, pos, state, result, text, reparsed, passes,
               starts>>

\* a ChunkedPriorityQueue
VARIABLES
    queue,          \* self.queue: {priority: deque of data}
    _limits,        \* self._limits: {None or context: limit}
    got,            \* what the last get returned or raised
    puts            \* how many items were put; the data of an item is its number

queueVars == <<queue, _limits, got, puts>>

\* a Pool made with the default clean_fn and destroy_fn, without min and limit
VARIABLES
    members,        \* self.members: the resources of the pool, a list
    used,           \* self.used
    to_clean,       \* self.to_clean, a list
    cleaning,       \* self.cleaning
    creating,       \* self.creating
    max,            \* self.max: the set of at most one number, empty for None
    made,           \* how many resources exist; resource n is the n-th made
    returned        \* what the last call on the pool returned or raised

poolVars == <<members, used, to_clean, cleaning, creating, max, made, returned>>

vars == <<regexVars, queueVars, poolVars>>

\* no call on the pool was made yet
NoCall == [op |-> "none", destroy |-> FALSE, value |-> "None"]

\* no get was called yet
NoResult == [kind |-> "none", priority |-> 0, data |-> 0]

NoException == [kind |-> "none", msg |-> ""]

\* the patterns 'a{m}', 'a{m,}' and 'a{m,n}'
CountPatterns ==
    {<<"a", "{", DigitChar(m), "}">> : m \in 0..MaxCount}
    \cup {<<"a", "{", DigitChar(m), ",", "}">> : m \in 0..MaxCount}
    \cup {<<"a", "{", DigitChar(mn[1]), ",", DigitChar(mn[2]), "}">> :
             mn \in (0..MaxCount) \X (0..MaxCount)}

InitLocals ==
    /\ tree = EmptyConcat
    /\ raised = NoException
    /\ target_states = {}
    /\ nfa = EmptyDict
    /\ dfa = EmptyDict
    /\ to_expand = {}
    /\ expanded = {}
    /\ data = <<>>
    /\ pos = 0
    /\ state = {}
    /\ result = FALSE
    /\ text = <<>>
    /\ reparsed = Return(EmptyConcat, <<>>)
    /\ passes = 0
    /\ starts = {}

\* no queue was made
NoQueue ==
    /\ queue = EmptyDict
    /\ _limits = EmptyDict
    /\ got = NoResult
    /\ puts = 0

\* no pool was made
NoPool ==
    /\ members = <<>>
    /\ used = {}
    /\ to_clean = <<>>
    /\ cleaning = {}
    /\ creating = 0
    /\ max = {}
    /\ made = 0
    /\ returned = NoCall

\* the number of literals of a tree
RECURSIVE CountLiterals(_)
RECURSIVE CountLiteralsIn(_)

CountLiterals(t) == IF t.kind = "literal" THEN 1 ELSE CountLiteralsIn(t.children)

CountLiteralsIn(ts) ==
    IF ts = <<>> THEN 0 ELSE CountLiterals(Head(ts)) + CountLiteralsIn(Tail(ts))

RangePattern(x, y) == <<"[", x, "-", y, "]">>

NegatedRangePattern(x, y) == <<"[", "^", x, "-", y, "]">>

\* the patterns '[x-y]' and '[^x-y]' that do not parse, or that parse to a
\* tree of at most MaxClassSize literals
RangePatterns ==
    {p \in {RangePattern(xy[1], xy[2]) : xy \in all_chars \X all_chars}
            \cup {NegatedRangePattern(xy[1], xy[2]) : xy \in all_chars \X all_chars} :
        \E r \in {_parse(p)} :
            r.err # "none" \/ CountLiterals(r.tree) <= MaxClassSize}

\* the input strings handed to _match: the strings over DataChars, and every
\* character alone or followed by ']'
MatchData ==
    SeqsUpTo(DataChars, MaxData)
    \cup {<<c>> : c \in all_chars}
    \cup {<<c, "]">> : c \in all_chars}

\* the characters of the patterns with '^' and '$' drawn by Init
AnchorChars == {"a", "b", "^", "$", "|"}

AnchorPatterns == SeqsUpTo(AnchorChars, MaxAnchorLen)

\* a call of match(pattern, data)
Init ==
    /\ pc = "parse"
    /\ pattern \in SeqsUpTo(CoreChars, MaxLen) \cup CountPatterns \cup RangePatterns
                     \cup AnchorPatterns
    /\ InitLocals
    /\ NoQueue
    /\ NoPool

\* ------------------------------------------------------------------ match

\* tree = parse(pattern) returns
ParseReturns ==
    /\ pc = "parse"
    /\ \E r \in {parse(pattern)} :
          /\ r.err = "none"
          /\ tree' = r.tree
    /\ pc' = "parsed"
    /\ UNCHANGED <<pattern, raised, target_states, nfa, dfa, to_expand, expanded,
                   data, pos, state, result, text, reparsed, passes>>
    /\ UNCHANGED starts
    /\ UNCHANGED queueVars
    /\ UNCHANGED poolVars

\* parse(pattern) raises
ParseRaises ==
    /\ pc = "parse"
    /\ \E r \in {parse(pattern)} :
          /\ r.err # "none"
          /\ raised' = [kind |-> r.err, msg |-> r.msg]
    /\ pc' = "raised"
    /\ UNCHANGED <<pattern, tree, target_states, nfa, dfa, to_expand, expanded,
                   data, pos, state, result, text, reparsed, passes>>
    /\ UNCHANGED starts
    /\ UNCHANGED queueVars
    /\ UNCHANGED poolVars

\* a variant of ToNfa whose state numbering goes on after the states of the
\* graph the previous call built
ToNfaContinuing ==
    /\ pc = "parsed"
    /\ \E r \in {_to_nfa(tree, {0}, 1 + Cardinality(DOMAIN nfa))} :
          /\ target_states' = r.ends
          /\ nfa' = r.graph
    /\ pc' = "to_dfa"
    /\ UNCHANGED <<pattern, tree, raised, dfa, to_expand, expanded,
                   data, pos, state, result, text, reparsed, passes>>
    /\ UNCHANGED starts
    /\ UNCHANGED queueVars
    /\ UNCHANGED poolVars

\* target_states, nfa = to_nfa(tree)
ToNfa ==
    /\ pc = "parsed"
    /\ \E r \in {to_nfa(tree)} :
          /\ target_states' = r.ends
          /\ nfa' = r.graph
    /\ pc' = "to_dfa"
    /\ UNCHANGED <<pattern, tree, raised, dfa, to_expand, expanded,
                   data, pos, state, result, text, reparsed, passes>>
    /\ UNCHANGED starts
    /\ UNCHANGED queueVars
    /\ UNCHANGED poolVars

\* a variant of DfaStart in which every nfa state is pending from the start
DfaStartEveryState ==
    /\ pc = "to_dfa"
    /\ dfa' = EmptyDict
    /\ to_expand' = {{0}} \cup {{s} : s \in DOMAIN nfa}
    /\ expanded' = {}
    /\ pc' = "expand"
    /\ UNCHANGED <<pattern, tree, raised, target_states, nfa,
                   data, pos, state, result, text, reparsed, passes>>
    /\ UNCHANGED starts
    /\ UNCHANGED queueVars
    /\ UNCHANGED poolVars

\* _to_dfa(nfa) is entered
DfaStart ==
    /\ pc = "to_dfa"
    /\ dfa' = EmptyDict
    /\ to_expand' = {{0}}
    /\ expanded' = {}
    /\ pc' = "expand"
    /\ UNCHANGED <<pattern, tree, raised, target_states, nfa,
                   data, pos, state, result, text, reparsed, passes>>
    /\ UNCHANGED starts
    /\ UNCHANGED queueVars
    /\ UNCHANGED poolVars

RECURSIVE SubsetInputs(_, _, _)

\* a variant of SubsetInputs that stops after the first nfa state
SubsetInputsFirstOnly(graph, nfa_states, inputs) ==
    IF nfa_states = <<>> THEN inputs
    ELSE _multimap_merge(inputs, GetDict(graph, Head(nfa_states)))

\* the transitions of a subset: the merge of those of its nfa states
SubsetInputs(graph, nfa_states, inputs) ==
    IF nfa_states = <<>> THEN inputs
    ELSE SubsetInputs(graph, Tail(nfa_states),
                      _multimap_merge(inputs, GetDict(graph, Head(nfa_states))))

\* a variant of NewStates that tests new states against to_expand only
NewStatesIgnoringExpanded(inputs, pending, done) ==
    {inputs[c] : c \in DOMAIN inputs} \ pending

\* a variant of NewStates that adds at most one new state per iteration
NewStatesOnlyOne(inputs, pending, done) ==
    LET new == {inputs[c] : c \in DOMAIN inputs} \ (pending \cup done)
    IN  IF new = {} THEN {} ELSE {CHOOSE n \in new : TRUE}

\* the new states one iteration adds to to_expand
NewStates(inputs, pending, done) ==
    {inputs[c] : c \in DOMAIN inputs} \ (pending \cup done)

\* one iteration of the while loop of _to_dfa, for the subset pop() returns
DfaExpand ==
    /\ pc = "expand"
    /\ to_expand # {}
    /\ \E popped \in to_expand :
          LET inputs == SubsetInputs(nfa, IterOrder(popped), EmptyDict)
          IN  /\ expanded' = expanded \cup {popped}
              /\ dfa' = [s \in DOMAIN dfa \cup {popped} |->
                            IF s = popped THEN inputs ELSE dfa[s]]
              /\ to_expand' = (to_expand \ {popped})
                                \cup NewStates(inputs, to_expand \ {popped},
                                               expanded \cup {popped})
    /\ UNCHANGED <<pc, pattern, tree, raised, target_states, nfa,
                   data, pos, state, result, text, reparsed, passes>>
    /\ UNCHANGED starts
    /\ UNCHANGED queueVars
    /\ UNCHANGED poolVars

\* the while loop ends and _to_dfa returns; _match is entered with some data
DfaReturns ==
    /\ pc = "expand"
    /\ to_expand = {}
    /\ \E d \in MatchData : data' = d
    /\ state' = {0}
    /\ pos' = 0
    /\ pc' = "match"
    /\ UNCHANGED <<pattern, tree, raised, target_states, nfa, dfa, to_expand,
                   expanded, result, text, reparsed, passes>>
    /\ UNCHANGED starts
    /\ UNCHANGED queueVars
    /\ UNCHANGED poolVars

\* a variant of MatchStep that passes over a character without transition
MatchStepSkipping ==
    /\ pc = "match"
    /\ pos < Len(data)
    /\ LET c == data[pos + 1]
       IN  IF state \notin DOMAIN dfa
           THEN /\ raised' = [kind |-> "KeyError", msg |-> ""]
                /\ pc' = "raised"
                /\ UNCHANGED <<state, pos, result>>
           ELSE IF c \in DOMAIN dfa[state]
           THEN /\ state' = dfa[state][c]
                /\ pos' = pos + 1
                /\ UNCHANGED <<pc, raised, result>>
           ELSE /\ pos' = pos + 1
                /\ UNCHANGED <<pc, state, raised, result>>
    /\ UNCHANGED <<pattern, tree, target_states, nfa, dfa, to_expand, expanded,
                   data, text, reparsed, passes>>
    /\ UNCHANGED starts
    /\ UNCHANGED queueVars
    /\ UNCHANGED poolVars

\* one iteration of the for loop of _match
MatchStep ==
    /\ pc = "match"
    /\ pos < Len(data)
    /\ LET c == data[pos + 1]
       IN  IF state \notin DOMAIN dfa
           THEN /\ raised' = [kind |-> "KeyError", msg |-> ""]
                /\ pc' = "raised"
                /\ UNCHANGED <<state, pos, result>>
           ELSE IF c \in DOMAIN dfa[state]
           THEN /\ state' = dfa[state][c]
                /\ pos' = pos + 1
                /\ UNCHANGED <<pc, raised, result>>
           ELSE /\ result' = FALSE
                /\ pc' = "done"
                /\ UNCHANGED <<state, pos, raised>>
    /\ UNCHANGED <<pattern, tree, target_states, nfa, dfa, to_expand, expanded,
                   data, text, reparsed, passes>>
    /\ UNCHANGED starts
    /\ UNCHANGED queueVars
    /\ UNCHANGED poolVars

\* the for loop ends: return bool(state & target_states)
MatchReturns ==
    /\ pc = "match"
    /\ pos = Len(data)
    /\ result' = (state \cap target_states # {})
    /\ pc' = "done"
    /\ UNCHANGED <<pattern, tree, raised, target_states, nfa, dfa, to_expand,
                   expanded, data, pos, state, text, reparsed, passes>>
    /\ UNCHANGED starts
    /\ UNCHANGED queueVars
    /\ UNCHANGED poolVars

Next ==
    \/ ParseReturns
    \/ ParseRaises
    \/ ToNfa
    \/ DfaStart
    \/ DfaExpand
    \/ DfaReturns
    \/ MatchStep
    \/ MatchReturns

Spec == Init /\ [][Next]_vars

\* _to_dfa runs to completion once entered: its while loop keeps iterating
\* while to_expand is not empty, and returns when it is
FairSpec == Spec /\ WF_vars(DfaExpand) /\ WF_vars(DfaReturns)

\* ----------------------------------------------------- parse and to_text

\* the repeat operators '*', '+' and '?'
StarOps == {<<"*">>, <<"+">>, <<"?">>}

\* the operators '{m}', '{m,}' and '{m,n}'
CountOps ==
    {<<"{", DigitChar(m), "}">> : m \in 0..MaxCount}
    \cup {<<"{", DigitChar(m), ",", "}">> : m \in 0..MaxCount}
    \cup {<<"{", DigitChar(mn[1]), ",", DigitChar(mn[2]), "}">> :
             mn \in (0..MaxCount) \X (0..MaxCount)}

\* the characters written between braces, and the '{...}' operators of them
BraceChars == {"0", "1", "2", ",", "-", "a"}

\* no digit follows a '1' or a '2': the numbers written stay below 3
SmallNumbers(b) ==
    \A i \in 1..(Len(b) - 1) : b[i] \in {"1", "2"} => b[i + 1] \notin Digits

BraceOps ==
    {<<"{">> \o b \o <<"}">> : b \in {t \in SeqsUpTo(BraceChars, MaxBrace) : SmallNumbers(t)}}

\* values a repeat operator is applied to
Operands == {<<"a">>, <<"(", "a", "b", ")">>, <<"[", "a", "b", "]">>, <<"\\", "*">>}

\* pattern texts that end where the current alternative has no value yet
NoValue == {<<>>, <<"(">>, <<"a", "|">>, <<"(", "a", "|">>, <<"a", "(", "|">>}

\* one repeat operator after a value or after no value, and two operators
\* after a value
RepeatPatterns ==
    {x \o op : x \in Operands \cup NoValue, op \in StarOps \cup BraceOps \cup CountOps}
    \cup {x \o o1 \o o2 : x \in {<<"a">>, <<"(", "a", "b", ")">>},
                           o1 \in StarOps \cup CountOps, o2 \in StarOps \cup CountOps}

\* the characters written between brackets, and every '[...]' class of them,
\* alone or followed by a literal
ClassChars == {"a", "b", "-", "^", "]", "\\"}

ClassPatterns ==
    {<<"[">> \o b \o <<"]">> \o t :
        b \in SeqsUpTo(ClassChars, MaxClass), t \in {<<>>, <<"b">>}}

\* every prefix of the patterns of P
Truncated(P) == UNION {{SubSeq(q, 1, k) : k \in 0..Len(q)} : q \in P}

SyntaxPatterns == Truncated(RepeatPatterns \cup ClassPatterns)

\* a call of parse(pattern), then of parse(to_text(tree))
InitParser ==
    /\ pc = "parse"
    /\ pattern \in SeqsUpTo(FullChars, MaxFullLen) \cup CountPatterns
                     \cup SyntaxPatterns
    /\ InitLocals
    /\ NoQueue
    /\ NoPool

\* text = to_text(tree)
ToText ==
    /\ pc = "parsed"
    /\ text' = to_text(tree)
    /\ pc' = "text"
    /\ UNCHANGED <<pattern, tree, raised, target_states, nfa, dfa, to_expand,
                   expanded, data, pos, state, result, reparsed, passes>>
    /\ UNCHANGED starts
    /\ UNCHANGED queueVars
    /\ UNCHANGED poolVars

\* parse(text) returns or raises
Reparse ==
    /\ pc = "text"
    /\ reparsed' = parse(text)
    /\ pc' = "reparsed"
    /\ UNCHANGED <<pattern, tree, raised, target_states, nfa, dfa, to_expand,
                   expanded, data, pos, state, result, text, passes>>
    /\ UNCHANGED starts
    /\ UNCHANGED queueVars
    /\ UNCHANGED poolVars

NextParser ==
    \/ ParseReturns
    \/ ParseRaises
    \/ ToText
    \/ Reparse

ParserSpec == InitParser /\ [][NextParser]_vars

\* -------------------------------------------------------------- _simplify

TreeLiterals == {Literal("a"), Literal("b")}

\* the trees of n nodes, and the lists of trees of n nodes in all
RECURSIVE TreesOfSize(_)
RECURSIVE ForestsOfSize(_)

TreesOfSize(n) ==
    IF n <= 0 THEN {}
    ELSE (IF n = 1 THEN TreeLiterals ELSE {})
         \cup {Kleene(t) : t \in TreesOfSize(n - 1)}
         \cup {Concat(f) : f \in ForestsOfSize(n - 1)}
         \cup {Alternate(f) : f \in ForestsOfSize(n - 1)}

ForestsOfSize(n) ==
    IF n = 0 THEN {<<>>}
    ELSE UNION {{<<t>> \o f : t \in TreesOfSize(k), f \in ForestsOfSize(n - k)} :
                   k \in 1..n}

\* the trees _parse returns for the patterns over CoreChars, not yet simplified
ParserTrees ==
    {_parse(p).tree : p \in {q \in SeqsUpTo(CoreChars, MaxLen) : parse(q).err = "none"}}

\* a call of _simplify(tree), then of _simplify on what it returned
InitSimplify ==
    /\ pc = "simplify"
    /\ pattern = <<>>
    /\ InitLocals!2 /\ InitLocals!3 /\ InitLocals!4 /\ InitLocals!5
    /\ InitLocals!6 /\ InitLocals!7 /\ InitLocals!8 /\ InitLocals!9
    /\ InitLocals!10 /\ InitLocals!11 /\ InitLocals!12 /\ InitLocals!13
    /\ InitLocals!14 /\ InitLocals!15
    /\ NoQueue
    /\ NoPool
    /\ tree \in (UNION {TreesOfSize(n) : n \in 1..MaxNodes}) \cup ParserTrees

\* tree = _simplify(tree)
Simplify ==
    /\ pc = "simplify"
    /\ passes < 2
    /\ tree' = _simplify(tree)
    /\ passes' = passes + 1
    /\ UNCHANGED <<pc, pattern, raised, target_states, nfa, dfa, to_expand,
                   expanded, data, pos, state, result, text, reparsed>>
    /\ UNCHANGED starts
    /\ UNCHANGED queueVars
    /\ UNCHANGED poolVars

NextSimplify == Simplify

SimplifySpec == InitSimplify /\ [][NextSimplify]_vars

\* ------------------------------------------------------ calls in sequence

\* the patterns of the calls of CallsSpec
CallPatterns == SeqsUpTo({"a", "b", "*", "|"}, MaxCallLen)

InitCalls ==
    /\ pc = "parse"
    /\ pattern \in CallPatterns
    /\ InitLocals
    /\ NoQueue
    /\ NoPool

\* match returned or raised, and match is called again: what the call before
\* left in the variables is still there
CallAgain ==
    /\ pc \in {"done", "raised"}
    /\ pattern' \in CallPatterns
    /\ raised' = NoException
    /\ pc' = "parse"
    /\ UNCHANGED <<tree, target_states, nfa, dfa, to_expand, expanded,
                   data, pos, state, result, text, reparsed, passes>>
    /\ UNCHANGED starts
    /\ UNCHANGED queueVars
    /\ UNCHANGED poolVars

NextCalls == CallAgain \/ Next

CallsSpec == InitCalls /\ [][NextCalls]_vars

\* ---------------------------------------------------------------- _to_nfa

\* the first id the state generator hands out: above every start state
FirstId == MaxStart + 1

\* a call of _to_nfa(tree, starts, next_state), as the calls made from within
\* _to_nfa are: on any tree, from any set of states made before
InitCompile ==
    /\ pc = "compile"
    /\ pattern = <<>>
    /\ InitLocals!2 /\ InitLocals!3 /\ InitLocals!4 /\ InitLocals!5
    /\ InitLocals!6 /\ InitLocals!7 /\ InitLocals!8 /\ InitLocals!9
    /\ InitLocals!10 /\ InitLocals!11 /\ InitLocals!12 /\ InitLocals!13
    /\ InitLocals!14
    /\ NoQueue
    /\ NoPool
    /\ tree \in UNION {TreesOfSize(n) : n \in 1..MaxCompileNodes}
    /\ starts \in SUBSET (0..MaxStart)

\* target_states, nfa = _to_nfa(tree, starts, next_state)
Compile ==
    /\ pc = "compile"
    /\ \E r \in {_to_nfa(tree, starts, FirstId)} :
          /\ target_states' = r.ends
          /\ nfa' = r.graph
    /\ pc' = "compiled"
    /\ UNCHANGED <<pattern, tree, raised, dfa, to_expand, expanded,
                   data, pos, state, result, text, reparsed, passes, starts>>
    /\ UNCHANGED queueVars
    /\ UNCHANGED poolVars

NextCompile == Compile

CompileSpec == InitCompile /\ [][NextCompile]_vars

\* -------------------------------------------------- ChunkedPriorityQueue

\* the key None of self._limits, under which set_limit keeps the base limit;
\* the keys of the limit_to contexts are 1, 2, ...
BaseKey == 0

Priorities == 0..MaxPriority

\* the limits given to set_limit and limit_to: the priorities, and one below
\* them all
LimitValues == (0 - 1)..MaxPriority

Min(S) == CHOOSE x \in S : \A y \in S : x <= y

\* a variant of _put that puts the item at the left end of its deque
_put_left(q, item) ==
    IF item.priority \in DOMAIN q
    THEN [q EXCEPT ![item.priority] = <<item.data>> \o @]
    ELSE q @@ (item.priority :> <<item.data>>)

\* self.queue[priority].append(data), on a defaultdict(deque)
_put(q, item) ==
    IF item.priority \in DOMAIN q
    THEN [q EXCEPT ![item.priority] = Append(@, item.data)]
    ELSE q @@ (item.priority :> <<item.data>>)

\* a variant of get_limit in which the base limit, when set, hides the limits
\* of the contexts
get_limit_base_first(limits) ==
    IF DOMAIN limits = {} THEN {}
    ELSE IF 0 \in DOMAIN limits THEN {limits[0]}
    ELSE {CHOOSE x \in {limits[k] : k \in DOMAIN limits} :
              \A y \in {limits[k] : k \in DOMAIN limits} : x <= y}

\* min(self._limits.values()) if self._limits else None: the set of at most
\* one limit, empty for None
get_limit(limits) ==
    IF DOMAIN limits = {} THEN {} ELSE {Min({limits[k] : k \in DOMAIN limits})}

\* a variant of WithinLimit that lets every priority through
WithinLimitAll(q, limit) == DOMAIN q

\* the priorities the limit lets through
WithinLimit(q, limit) == {p \in DOMAIN q : \A l \in limit : p <= l}

RECURSIVE SumLen(_, _)
SumLen(q, ps) ==
    IF ps = {} THEN 0
    ELSE LET p == Min(ps) IN Len(q[p]) + SumLen(q, ps \ {p})

qsize(q, limits) == SumLen(q, WithinLimit(q, get_limit(limits)))

\* the first priority, in sorted order and up to the limit, whose deque is not
\* empty; there is one whenever qsize is positive
_find_next(q, limits) ==
    Min({p \in WithinLimit(q, get_limit(limits)) : q[p] # <<>>})

\* priority, queue.popleft(): the item and the queue without it
_get(q, limits) ==
    LET priority == _find_next(q, limits) IN
    [priority |-> priority, data |-> Head(q[priority]),
     queue |-> [q EXCEPT ![priority] = Tail(@)]]

\* _init(maxsize, items): each item is put in turn; the data of the n-th is n
RECURSIVE PutAll(_, _, _)
PutAll(q, items, n) ==
    IF n > Len(items) THEN q
    ELSE PutAll(_put(q, [priority |-> items[n], data |-> n]), items, n + 1)

InitQueue ==
    /\ pc = "queue"
    /\ pattern = <<>>
    /\ InitLocals
    /\ \E items \in SeqsUpTo(Priorities, 1) :
          /\ queue = PutAll(EmptyDict, items, 1)
          /\ puts = Len(items)
    /\ _limits = EmptyDict
    /\ got = NoResult
    /\ NoPool

\* queue.put((priority, data)) on a queue without maxsize
Put ==
    /\ pc = "queue"
    /\ puts < MaxPuts
    /\ \E priority \in Priorities :
          queue' = _put(queue, [priority |-> priority, data |-> puts + 1])
    /\ puts' = puts + 1
    /\ UNCHANGED <<_limits, got>>
    /\ UNCHANGED regexVars
    /\ UNCHANGED poolVars

\* queue.get(block=False): Empty when qsize() is 0, and _get() otherwise
Get ==
    /\ pc = "queue"
    /\ IF qsize(queue, _limits) = 0
       THEN /\ got' = [kind |-> "Empty", priority |-> 0, data |-> 0]
            /\ UNCHANGED queue
       ELSE \E r \in {_get(queue, _limits)} :
               /\ got' = [kind |-> "item", priority |-> r.priority, data |-> r.data]
               /\ queue' = r.queue
    /\ UNCHANGED <<_limits, puts>>
    /\ UNCHANGED regexVars
    /\ UNCHANGED poolVars

\* queue.set_limit(limit)
SetLimit ==
    /\ pc = "queue"
    /\ \E limit \in LimitValues : _limits' = [k \in DOMAIN _limits \cup {BaseKey} |->
                                      IF k = BaseKey THEN limit ELSE _limits[k]]
    /\ UNCHANGED <<queue, got, puts>>
    /\ UNCHANGED regexVars
    /\ UNCHANGED poolVars

\* queue.set_limit(None)
UnsetLimit ==
    /\ pc = "queue"
    /\ _limits' = [k \in DOMAIN _limits \ {BaseKey} |-> _limits[k]]
    /\ UNCHANGED <<queue, got, puts>>
    /\ UNCHANGED regexVars
    /\ UNCHANGED poolVars

\* with queue.limit_to(limit): a new context is entered
EnterLimit ==
    /\ pc = "queue"
    /\ \E self \in (1..MaxContexts) \ DOMAIN _limits :
          /\ \A o \in (1..MaxContexts) \ DOMAIN _limits : self <= o
          /\ \E limit \in LimitValues : _limits' = _limits @@ (self :> limit)
    /\ UNCHANGED <<queue, got, puts>>
    /\ UNCHANGED regexVars
    /\ UNCHANGED poolVars

\* the block of a context ends
ExitLimit ==
    /\ pc = "queue"
    /\ \E self \in DOMAIN _limits \ {BaseKey} :
          _limits' = [k \in DOMAIN _limits \ {self} |-> _limits[k]]
    /\ UNCHANGED <<queue, got, puts>>
    /\ UNCHANGED regexVars
    /\ UNCHANGED poolVars

NextQueue ==
    \/ Put
    \/ Get
    \/ SetLimit
    \/ UnsetLimit
    \/ EnterLimit
    \/ ExitLimit

QueueSpec == InitQueue /\ [][NextQueue]_vars

\* ------------------------------------------------------------------- Pool

\* list.remove(x): the list without the first x
RECURSIVE ListRemove(_, _)
ListRemove(l, x) ==
    IF l = <<>> THEN l
    ELSE IF Head(l) = x THEN Tail(l)
    ELSE <<Head(l)>> \o ListRemove(Tail(l), x)

Elements(l) == {l[i] : i \in 1..Len(l)}

\* the fields of the pool
ThePool ==
    [members |-> members, used |-> used, to_clean |-> to_clean,
     cleaning |-> cleaning, creating |-> creating, made |-> made]

\* the property available
available(P) ==
    SelectSeq(P.members, LAMBDA x : x \notin (P.used \cup P.cleaning \cup Elements(P.to_clean)))

\* what a call leaves and returns; value is the name of the exception when it
\* raised
Outcome(P, value) == [pool |-> P, value |-> value]

adopt(P, resource, in_use) ==
    [P EXCEPT !.members = <<resource>> \o @,
              !.used = IF in_use THEN @ \cup {resource} ELSE @]

\* create(): the factory makes a resource that did not exist; creating is
\* raised and lowered around the call
create(P) == adopt([P EXCEPT !.made = @ + 1], P.made + 1, FALSE)

\* remove(resource), with min None
remove(P, resource) ==
    IF resource \notin Elements(P.members)
    THEN Outcome(P, "ValueError")
    ELSE Outcome([P EXCEPT !.to_clean = ListRemove(@, resource),
                           !.used = @ \ {resource},
                           !.members = ListRemove(@, resource)], "None")

\* destroy(resource), with the default destroy_fn
destroy(P, resource) == remove(P, resource)

\* the end of clean: cleaned = clean_fn(resource) is the resource itself, which
\* moves to the end of members
CleanResource(P, resource) ==
    IF resource \notin Elements(P.members)
    THEN Outcome(P, "AssertionError")
    ELSE Outcome([P EXCEPT !.members = Append(ListRemove(@, resource), resource)],
                 "True")

clean(P, destroy_, mx) ==
    IF P.to_clean = <<>> THEN Outcome(P, "False")
    ELSE LET resource == Head(P.to_clean)
             P1 == [P EXCEPT !.to_clean = Tail(@), !.cleaning = @ \cup {resource}]
         IN  IF destroy_ /\ \E m \in mx : Len(P1.members) > m
             THEN LET d == destroy(P1, resource) IN
                  IF d.value = "None" THEN Outcome(d.pool, "True") ELSE d
             ELSE CleanResource(P1, resource)

\* the end of get: the first available resource is marked used, and wrapping
\* it raises: ResourceWrapper.__init__ sets an attribute, __setattr__ reads
\* self.__resource, which is not set, and __getattr__ reads it again without end
TakeFirst(P) ==
    IF available(P) = <<>> THEN Outcome(P, "AssertionError")
    ELSE Outcome([P EXCEPT !.used = @ \cup {Head(available(P))}], "RuntimeError")

\* get(), with limit None
get(P, mx) ==
    IF available(P) # <<>> THEN TakeFirst(P)
    ELSE LET c == clean(P, FALSE, mx) IN
         IF c.value = "False" THEN TakeFirst(create(c.pool))
         ELSE IF c.value = "True" THEN TakeFirst(c.pool)
         ELSE c

put(P, resource) ==
    IF resource \notin Elements(P.members) THEN Outcome(P, "ValueError")
    ELSE IF resource \notin P.used THEN Outcome(P, "ValueError")
    ELSE Outcome([P EXCEPT !.to_clean = Append(@, resource)], "None")

\* the call left the pool as P
PoolBecomes(P) ==
    /\ members' = P.members
    /\ used' = P.used
    /\ to_clean' = P.to_clean
    /\ cleaning' = P.cleaning
    /\ creating' = P.creating
    /\ made' = P.made

\* Pool(factory) or Pool(factory, max=1)
InitPool ==
    /\ pc = "pool"
    /\ pattern = <<>>
    /\ InitLocals
    /\ NoQueue
    /\ members = <<>>
    /\ used = {}
    /\ to_clean = <<>>
    /\ cleaning = {}
    /\ creating = 0
    /\ max \in {{}, {1}}
    /\ made = 0
    /\ returned = NoCall

\* pool.adopt(resource, in_use) of a resource made outside the pool
PoolAdopt ==
    /\ pc = "pool"
    /\ made < MaxResources
    /\ \E in_use \in BOOLEAN :
          PoolBecomes(adopt([ThePool EXCEPT !.made = @ + 1], made + 1, in_use))
    /\ returned' = [op |-> "adopt", destroy |-> FALSE, value |-> "None"]
    /\ UNCHANGED max
    /\ UNCHANGED regexVars
    /\ UNCHANGED queueVars

\* pool.get()
PoolGet ==
    /\ pc = "pool"
    /\ \E r \in {get(ThePool, max)} :
          /\ r.pool.made <= MaxResources
          /\ PoolBecomes(r.pool)
          /\ returned' = [op |-> "get", destroy |-> FALSE, value |-> r.value]
    /\ UNCHANGED max
    /\ UNCHANGED regexVars
    /\ UNCHANGED queueVars

\* pool.put(resource)
PoolPut ==
    /\ pc = "pool"
    /\ Len(to_clean) < MaxPending
    /\ \E resource \in 1..made : \E r \in {put(ThePool, resource)} :
          /\ PoolBecomes(r.pool)
          /\ returned' = [op |-> "put", destroy |-> FALSE, value |-> r.value]
    /\ UNCHANGED max
    /\ UNCHANGED regexVars
    /\ UNCHANGED queueVars

\* pool.clean(destroy)
PoolClean ==
    /\ pc = "pool"
    /\ \E destroy_ \in BOOLEAN : \E r \in {clean(ThePool, destroy_, max)} :
          /\ PoolBecomes(r.pool)
          /\ returned' = [op |-> "clean", destroy |-> destroy_, value |-> r.value]
    /\ UNCHANGED max
    /\ UNCHANGED regexVars
    /\ UNCHANGED queueVars

NextPool ==
    \/ PoolAdopt
    \/ PoolGet
    \/ PoolPut
    \/ PoolClean

PoolSpec == InitPool /\ [][NextPool]_vars

\* ----------------------------------------------------------------- properties

\* the language a tree denotes: a literal is its one symbol, a concat its
\* children in sequence, an alternate any child, a kleene zero or more
\* repeats of its child
RECURSIVE Matches(_, _)
RECURSIVE MatchesSeq(_, _)

Matches(t, w) ==
    IF t.kind = "literal" THEN w = <<t.value>>
    ELSE IF t.kind = "alternate"
    THEN \E i \in 1..Len(t.children) : Matches(t.children[i], w)
    ELSE IF t.kind = "concat" THEN MatchesSeq(t.children, w)
    ELSE \/ w = <<>>
         \/ \E k \in 1..Len(w) :
               /\ Matches(t.children[1], SubSeq(w, 1, k))
               /\ Matches(t, SubSeq(w, k + 1, Len(w)))

MatchesSeq(ts, w) ==
    IF ts = <<>> THEN w = <<>>
    ELSE \E k \in 0..Len(w) :
            /\ Matches(Head(ts), SubSeq(w, 1, k))
            /\ MatchesSeq(Tail(ts), SubSeq(w, k + 1, Len(w)))

OnlyChars(p, S) == \A i \in 1..Len(p) : p[i] \in S

\* C1: for a pattern of literals, grouping, concatenation, '|' and '*', match
\* returns true exactly when the whole input is in the language of the
\* pattern's tree
C1_MatchDecidesLanguage ==
    (pc = "done" /\ OnlyChars(pattern, CoreChars)) => (result = Matches(tree, data))

\* C1's failing input: match('a*b*', 'ba') returned true, and 'ba' is not in
\* the language of the tree
C1_FailingInput ==
    /\ pc = "done"
    /\ pattern = <<"a", "*", "b", "*">>
    /\ data = <<"b", "a">>
    /\ result
    /\ ~Matches(tree, data)

\* the finite set of strings a tree without kleene describes
RECURSIVE StringsOf(_)
RECURSIVE StringsOfSeq(_)

StringsOf(t) ==
    IF t.kind = "literal" THEN {<<t.value>>}
    ELSE IF t.kind = "alternate"
    THEN UNION {StringsOf(t.children[i]) : i \in 1..Len(t.children)}
    ELSE StringsOfSeq(t.children)

StringsOfSeq(ts) ==
    IF ts = <<>> THEN {<<>>}
    ELSE {u \o v : u \in StringsOf(Head(ts)), v \in StringsOfSeq(Tail(ts))}

NoRepeat(p) == OnlyChars(p, {"a", "b", "(", ")", "|"})

\* C2: for a pattern of literals, grouping, alternation and concatenation
\* only, match returns true exactly for the strings of the finite set the
\* pattern describes (the tree _parse built from it, before simplification)
C2_LiteralLanguage ==
    (pc = "done" /\ NoRepeat(pattern))
        => (result = (data \in StringsOf(_parse(pattern).tree)))

\* C2's case: a pattern with an alternation and no repeat matched a string of
\* two characters or more
C2_Witness ==
    /\ pc = "done"
    /\ NoRepeat(pattern)
    /\ \E i \in 1..Len(pattern) : pattern[i] = "|"
    /\ result
    /\ Len(data) >= 2

\* C3: parse(to_text(t)) returns a tree structurally equal to t, for every
\* tree t that parse returned
C3_RoundTrip ==
    pc = "reparsed" => (reparsed.err = "none" /\ reparsed.tree = tree)

\* C3's failing input: parse('\\^') is the literal '^', to_text writes it
\* as '^', and parse('^') is the START literal
C3_FailingInput ==
    /\ pc = "reparsed"
    /\ pattern = <<"\\", "^">>
    /\ tree = Literal("^")
    /\ text = <<"^">>
    /\ reparsed.err = "none"
    /\ reparsed.tree = Literal("START")

\* C4: a second _simplify leaves the result of the first unchanged
C4_SimplifyIdempotent ==
    [][(pc = "simplify" /\ passes >= 1) => tree' = tree]_vars

\* C4's case: _simplify was applied twice and the tree is an alternate with a
\* kleene child
C4_Witness ==
    /\ pc = "simplify"
    /\ passes = 2
    /\ tree.kind = "alternate"
    /\ \E i \in 1..Len(tree.children) : tree.children[i].kind = "kleene"

\* the shape of a simplified tree, at every node
RECURSIVE Canonical(_)
Canonical(t) ==
    /\ t.kind \in {"concat", "alternate"} =>
          /\ Len(t.children) # 1
          /\ \A i \in 1..Len(t.children) : t.children[i].kind # t.kind
    /\ t.kind = "alternate" => Len(t.children) # 0
    /\ t.kind = "kleene" =>
          /\ t.children[1].kind # "kleene"
          /\ t.children[1] # EmptyConcat
    /\ \A i \in 1..Len(t.children) : Canonical(t.children[i])

\* C5: in a tree _simplify returned no concat has a concat child, no alternate
\* an alternate child, no alternate or concat exactly one child, no kleene a
\* kleene or the empty concat as child, no alternate zero children
C5_SimplifiedShape ==
    (pc = "simplify" /\ passes >= 1) => Canonical(tree)

\* C5's case: _simplify returned a concat of two or more children, one of them
\* an alternate
C5_Witness ==
    /\ pc = "simplify"
    /\ passes = 1
    /\ tree.kind = "concat"
    /\ \E i \in 1..Len(tree.children) : tree.children[i].kind = "alternate"

\* s is the end of a path of the graph from state 0 labelled by w
RECURSIVE NfaPath(_, _, _)
NfaPath(graph, s, w) ==
    IF w = <<>> THEN s = 0
    ELSE \E t \in DOMAIN graph :
            /\ w[Len(w)] \in DOMAIN graph[t]
            /\ s \in graph[t][w[Len(w)]]
            /\ NfaPath(graph, t, SubSeq(w, 1, Len(w) - 1))

NfaStates(graph) ==
    {0} \cup DOMAIN graph
        \cup UNION {UNION {graph[t][c] : c \in DOMAIN graph[t]} : t \in DOMAIN graph}

NfaReachable(graph, w) == {s \in NfaStates(graph) : NfaPath(graph, s, w)}

\* C6: the subset _match holds after each prefix is the set of nfa states
\* reachable from state 0 on that prefix, and match returns true iff a path
\* labelled by the whole input ends in an accepting state
C6_DfaWalkIsNfaReach ==
    /\ pc = "match" => state = NfaReachable(nfa, SubSeq(data, 1, pos))
    /\ pc = "done" => result = (NfaReachable(nfa, data) \cap target_states # {})

\* C6's case: match returned true after a walk that ended in a subset of
\* several nfa states
C6_Witness ==
    /\ pc = "done"
    /\ result
    /\ pos >= 2
    /\ Cardinality(state) >= 2

\* C7: after parse returned a tree nothing raises: every subset _match looks
\* up is a key of the dfa
C7_MatchNeverRaises ==
    /\ raised.kind # "KeyError"
    /\ pc = "match" => state \in DOMAIN dfa

\* C7's case: _match looked up the destination of a taken transition
C7_Witness ==
    /\ pc = "match"
    /\ pos >= 2
    /\ state # {0}
    /\ state \in DOMAIN dfa

\* C8: parse returns a tree or raises ParseError: no assertion of the parser
\* fails and no other exception escapes
C8_OnlyParseError ==
    /\ pc = "raised" => raised.kind = "ParseError"
    /\ pc = "reparsed" => reparsed.err \in {"none", "ParseError"}

\* C8's case: parse raised for a group that is not closed
C8_Witness ==
    /\ pc = "raised"
    /\ raised.kind = "ParseError"
    /\ raised.msg = "Unterminated group"

\* one iteration of _to_dfa expands a subset that was pending and not expanded
\* before, and leaves no expanded subset pending
ExpandsOnce ==
    (pc = "expand" /\ pc' = "expand") =>
        /\ \E popped \in to_expand \ expanded : expanded' = expanded \cup {popped}
        /\ to_expand' \cap expanded' = {}

\* C9: the worklist loop of _to_dfa ends, and every subset is expanded at most
\* once
C9_SubsetConstructionTerminates ==
    /\ (pc = "expand") ~> (pc = "match")
    /\ [][ExpandsOnce]_vars

\* C9's case: the loop ended after it expanded three subsets or more
C9_Witness ==
    /\ pc = "match"
    /\ to_expand = {}
    /\ Cardinality(expanded) >= 3

RepeatExactly(m) == <<"a", "{", DigitChar(m), "}">>

RepeatAtLeast(m) == <<"a", "{", DigitChar(m), ",", "}">>

RepeatBetween(m, n) == <<"a", "{", DigitChar(m), ",", DigitChar(n), "}">>

OnlyAs(w) == \A i \in 1..Len(w) : w[i] = "a"

\* C10: 'a{m,n}' matches a^k iff m <= k <= n, 'a{m}' iff k = m, 'a{m,}' iff
\* k >= m
C10_Counts ==
    (pc = "done" /\ OnlyAs(data)) =>
        \A m \in 0..MaxCount :
            /\ pattern = RepeatExactly(m) => (result = (Len(data) = m))
            /\ pattern = RepeatAtLeast(m) => (result = (Len(data) >= m))
            /\ \A n \in m..MaxCount :
                  pattern = RepeatBetween(m, n)
                      => (result = (m <= Len(data) /\ Len(data) <= n))

\* C10's case: 'a{1,3}' matched 'aa'
C10_Witness ==
    /\ pc = "done"
    /\ pattern = RepeatBetween(1, 3)
    /\ data = <<"a", "a">>
    /\ result

\* the number of '(' not yet closed after the first i characters of p (negative
\* when a ')' had no '(' to close)
RECURSIVE Depth(_, _)
Depth(p, i) ==
    IF i = 0 THEN 0
    ELSE Depth(p, i - 1) + (IF p[i] = "(" THEN 1 ELSE IF p[i] = ")" THEN 0 - 1 ELSE 0)

StrayClose(p) == \E i \in 1..Len(p) : Depth(p, i) < 0

Balanced(p) == ~StrayClose(p) /\ Depth(p, Len(p)) = 0

\* C11: for a pattern of literals, '(' and ')', parse succeeds iff the
\* parentheses are balanced; a ')' with no matching '(' raises ParseError
\* (close parenthesis without matching open), an unclosed '(' raises
\* ParseError (unterminated group)
C11_ParenthesisBalance ==
    OnlyChars(pattern, {"a", "b", "(", ")"}) =>
        /\ pc \notin {"parse", "raised"} => Balanced(pattern)
        /\ pc = "raised" =>
              /\ ~Balanced(pattern)
              /\ raised.kind = "ParseError"
              /\ raised.msg =
                    IF StrayClose(pattern)
                    THEN "Close parenthesis without matching open parenthesis"
                    ELSE "Unterminated group"

\* C11's case: parse raised for the ')' of '())(' that closes nothing
C11_Witness ==
    /\ pc = "raised"
    /\ pattern = <<"(", ")", ")", "(">>
    /\ raised.msg = "Close parenthesis without matching open parenthesis"

\* the repeat operators parse accepts after a value
ValidOps ==
    StarOps
    \cup {<<"{", DigitChar(m), "}">> : m \in 0..MaxCount}
    \cup {<<"{", DigitChar(m), ",", "}">> : m \in 0..MaxCount}
    \cup {<<"{", DigitChar(mn[1]), ",", DigitChar(mn[2]), "}">> :
             mn \in {x \in (0..MaxCount) \X (0..MaxCount) : x[1] <= x[2]}}

OperatorAfterNoValue ==
    \E v \in NoValue : \E op \in StarOps \cup CountOps : pattern = v \o op

OperatorAfterOperator ==
    \E x \in {<<"a">>, <<"(", "a", "b", ")">>} :
        \E o1 \in ValidOps : \E o2 \in ValidOps : pattern = x \o o1 \o o2

\* C12: a repeat operator with no preceding value in the current alternative
\* (at the start of the pattern, after '(' or after '|') raises ParseError,
\* whereas an operator applied to the result of a previous operator is
\* accepted
C12_RepeatNeedsValue ==
    /\ (OperatorAfterNoValue /\ pc # "parse")
          => (pc = "raised" /\ raised.kind = "ParseError")
    /\ OperatorAfterOperator => pc # "raised"

\* C12's failing input: parse('a{0}*') raises, for the '*' that follows the
\* operator '{0}'
C12_FailingInput ==
    /\ pc = "raised"
    /\ pattern = <<"a", "{", "0", "}", "*">>
    /\ raised.kind = "ParseError"
    /\ raised.msg = "Unary operator must follow a value"

\* the operator '{m,n}'
CountOp(m, n) == <<"{", DigitChar(m), ",", DigitChar(n), "}">>

\* C13: for every operand x and m > n >= 0, parse('x{m,n}') raises ParseError
\* (repeat operator maximum must be >= minimum) and produces no tree
C13_MaximumBelowMinimum ==
    (\E x \in Operands : \E m, n \in 0..MaxCount : m > n /\ pattern = x \o CountOp(m, n))
        => /\ pc \in {"parse", "raised"}
           /\ tree = EmptyConcat
           /\ pc = "raised" =>
                 /\ raised.kind = "ParseError"
                 /\ raised.msg = "Repeat operator maximum must be >= minimum"

\* C13's case: parse('(ab){3,1}') raised
C13_Witness ==
    /\ pc = "raised"
    /\ pattern = <<"(", "a", "b", ")">> \o CountOp(3, 1)
    /\ raised.msg = "Repeat operator maximum must be >= minimum"

\* the text between braces has one of the forms m, 'm,' and 'm,n', with m and
\* n written in digits
BraceForm(b) ==
    \/ IsDigits(b)
    \/ \E i \in 1..Len(b) :
          /\ b[i] = ","
          /\ IsDigits(SubSeq(b, 1, i - 1))
          /\ i = Len(b) \/ IsDigits(SubSeq(b, i + 1, Len(b)))

\* C14: a '{...}' operator is accepted only in the forms {m}, {m,} and {m,n}
\* with each bound written a non-negative integer; any other brace content
\* (empty braces, a missing minimum, non-numeric text, a negative number)
\* raises ParseError
C14_BraceForms ==
    \A x \in Operands : \A b \in SeqsUpTo(BraceChars, MaxBrace) :
        (pattern = x \o <<"{">> \o b \o <<"}">> /\ ~BraceForm(b) /\ pc # "parse")
            => (pc = "raised" /\ raised.kind = "ParseError")

\* C14's failing input: parse('a{}') returned the tree of 'a*'
C14_FailingInput ==
    /\ pc = "parsed"
    /\ pattern = <<"a", "{", "}">>
    /\ tree = Kleene(Literal("a"))

InRange(x, y, d) == ord(x) <= ord(d) /\ ord(d) <= ord(y)

\* match('[x-y]', data) and match('[^x-y]', data) return what the range says
RangeDecides(x, y) ==
    /\ pattern = RangePattern(x, y) =>
          /\ pc # "raised"
          /\ pc = "done" => (result = (Len(data) = 1 /\ InRange(x, y, data[1])))
    /\ pattern = NegatedRangePattern(x, y) =>
          /\ pc # "raised"
          /\ pc = "done" => (result = (Len(data) = 1 /\ ~InRange(x, y, data[1])))

\* the characters that do not stand for themselves at the start and at the
\* end of a range
PlainStart(x) == x \notin {"^", "\\"}

PlainEnd(y) == y \notin {"]", "\\"}

\* C15: for alphabet characters x <= y (that stand for themselves in a
\* class), match('[x-y]', d) is true iff d is one character of the inclusive
\* range, and match('[^x-y]', d) iff d is one alphabet character outside it
C15_Ranges ==
    \A x, y \in all_chars :
        (ord(x) <= ord(y) /\ PlainStart(x) /\ PlainEnd(y)) => RangeDecides(x, y)

\* C15's failing input: the negation of the range of all characters matched
\* the empty string
C15_FailingInput ==
    /\ pc = "done"
    /\ pattern = NegatedRangePattern("$", "}")
    /\ tree = EmptyConcat
    /\ data = <<>>
    /\ result

\* the first ']' of p at index i or later that no backslash escapes (0 when
\* there is none)
RECURSIVE FirstClose(_, _)
FirstClose(p, i) ==
    IF i > Len(p) THEN 0
    ELSE IF p[i] = "\\" THEN FirstClose(p, i + 2)
    ELSE IF p[i] = "]" THEN i
    ELSE FirstClose(p, i + 1)

\* the length of the opening '[' or '[^' of a pattern that starts with a class
Opening(p) == IF Len(p) >= 2 /\ p[2] = "^" THEN 2 ELSE 1

\* the first unescaped ']' after the opening
CloseAfterOpening(p) == FirstClose(p, Opening(p) + 1)

\* the first unescaped ']' after the first character of the class (one
\* character, or a backslash and the character it escapes)
CloseAfterMember(p) ==
    IF Opening(p) + 1 > Len(p) THEN 0
    ELSE IF p[Opening(p) + 1] = "\\" THEN FirstClose(p, Opening(p) + 3)
    ELSE FirstClose(p, Opening(p) + 2)

\* a tree _parse returns for the text of one class and nothing else
OneClass(t) ==
    /\ t.kind = "alternate"
    /\ Len(t.children) = 1
    /\ Len(t.children[1].children) = 1
    /\ t.children[1].children[1].kind = "alternate"
    /\ \A i \in 1..Len(t.children[1].children[1].children) :
          t.children[1].children[1].children[i].kind = "literal"

\* the first k characters of the pattern are one class, and the tree is that
\* class followed by what the rest of the pattern parses to
ClassEndsAt(k) ==
    \E c \in {_parse(SubSeq(pattern, 1, k))} :
    \E r \in {_parse(SubSeq(pattern, k + 1, Len(pattern)))} :
        /\ c.err = "none"
        /\ c.data = <<>>
        /\ OneClass(c.tree)
        /\ r.err = "none"
        /\ tree = _simplify(Concat(<<c.tree, r.tree>>))

\* the pattern is one '[' followed by characters a class is written with
StartsWithClass ==
    /\ pattern # <<>>
    /\ pattern[1] = "["
    /\ OnlyChars(Tail(pattern), ClassChars)

\* C16 as stated: a class ends at the first unescaped ']' that follows its
\* opening '[' or '[^', and parsing resumes right after it
C16_ClassEndsAtFirstClose ==
    (StartsWithClass /\ CloseAfterOpening(pattern) # 0 /\ pc \notin {"parse", "raised"})
        => ClassEndsAt(CloseAfterOpening(pattern))

\* C16, amended: a class ends at the first unescaped ']' that follows its
\* first character (a ']' right after the opening is a character of the
\* class), and parsing resumes right after it
C16_ClassEnd ==
    /\ (StartsWithClass /\ CloseAfterMember(pattern) # 0 /\ pc \notin {"parse", "raised"})
          => ClassEndsAt(CloseAfterMember(pattern))
    /\ (StartsWithClass /\ CloseAfterMember(pattern) # 0 /\ pc = "raised")
          => raised.msg # "Unterminated character set"
    /\ (StartsWithClass /\ CloseAfterMember(pattern) = 0 /\ pc # "parse")
          => pc = "raised"

\* C16's case: parse('[]a]b') returned the class of ']' and 'a' followed by 'b'
C16_Witness ==
    /\ pc = "parsed"
    /\ pattern = <<"[", "]", "a", "]", "b">>
    /\ tree = Concat(<<Alternate(<<Literal("]"), Literal("a")>>), Literal("b")>>)

\* the construct the text p is inside of after its characters from index i on
\* were read in the given mode: "top" (none), "class_open" (after '['),
\* "class_empty" (after '[^'), "class" (a class with a character), "brace"
\* (a '{' operator), "escape" (after a backslash that ends the text)
RECURSIVE Lex(_, _, _)
Lex(p, i, mode) ==
    IF i > Len(p) THEN mode
    ELSE IF mode = "brace"
    THEN Lex(p, i + 1, IF p[i] = "}" THEN "top" ELSE "brace")
    ELSE IF p[i] = "\\"
    THEN IF i = Len(p) THEN "escape"
         ELSE Lex(p, i + 2, IF mode = "top" THEN "top" ELSE "class")
    ELSE IF mode = "top"
    THEN Lex(p, i + 1, IF p[i] = "[" THEN "class_open"
                       ELSE IF p[i] = "{" THEN "brace" ELSE "top")
    ELSE IF mode = "class_open" /\ p[i] = "^" THEN Lex(p, i + 1, "class_empty")
    ELSE IF mode = "class" /\ p[i] = "]" THEN Lex(p, i + 1, "top")
    ELSE Lex(p, i + 1, "class")

OpenAtEnd(p) == Lex(p, 1, "top")

\* C17: a pattern whose text ends inside a character class, directly after a
\* backslash or inside a '{' operator raises ParseError
C17_UnterminatedRaises ==
    (OpenAtEnd(pattern) # "top" /\ pc # "parse")
        => (pc = "raised" /\ raised.kind = "ParseError")

\* C17's case: parse raised for a pattern that ends inside a '{' operator,
\* after a class that was complete
C17_Witness ==
    /\ pc = "raised"
    /\ pattern = <<"[", "a", "b", "]", "{", "1", ",">>
    /\ OpenAtEnd(pattern) = "brace"
    /\ raised.msg = "Unterminated repeat operator"

Tokens == {"START", "END"}

\* the values of the literals of a tree
RECURSIVE LiteralValues(_)
LiteralValues(t) ==
    IF t.kind = "literal" THEN {t.value}
    ELSE UNION {LiteralValues(t.children[i]) : i \in 1..Len(t.children)}

\* what the characters of a pattern of AnchorChars stand for
Symbols(p) ==
    {IF p[i] = "^" THEN "START" ELSE IF p[i] = "$" THEN "END" ELSE p[i] :
        i \in {j \in 1..Len(p) : p[j] # "|"}}

\* the strings of a tree in which no token occurs
PlainStringsOf(t) == {w \in StringsOf(t) : \A i \in 1..Len(w) : w[i] \notin Tokens}

\* C18: '^' and '$' outside a class parse to the literals START and END, and
\* no input of plain characters takes a transition they label: a pattern
\* matches exactly the strings of its alternatives that need no token
C18_AnchorsAreSymbols ==
    (OnlyChars(pattern, AnchorChars) /\ pc \notin {"parse", "raised"})
        => /\ LiteralValues(tree) = Symbols(pattern)
           /\ pc \in {"match", "done"} => \A i \in 1..pos : data[i] \notin Tokens
           /\ pc = "done" => result = (data \in PlainStringsOf(_parse(pattern).tree))

\* C18's case: match('^a', 'a') returned false
C18_Witness ==
    /\ pc = "done"
    /\ pattern = <<"^", "a">>
    /\ tree = Concat(<<Literal("START"), Literal("a")>>)
    /\ data = <<"a">>
    /\ ~result

\* the dfa is the subset construction of the graph and of nothing else: its
\* keys are {0} and the subsets its entries lead to, each with the merged
\* transitions of its states
DfaOf(graph, d) ==
    /\ {0} \in DOMAIN d
    /\ \A s \in DOMAIN d :
          /\ d[s] = SubsetInputs(graph, IterOrder(s), EmptyDict)
          /\ \A c \in DOMAIN d[s] : d[s][c] \in DOMAIN d
    /\ \A s \in DOMAIN d : \E w \in SeqsUpTo(DataChars, Cardinality(DOMAIN d)) :
          s = NfaReachable(graph, w)

\* C19: in any sequence of calls the result of each call depends on its own
\* arguments only: the tree on the pattern, the accepting set and the graph
\* on the tree (numbered from the start state 0 and the first new id 1), the
\* dfa on the graph, the result on the pattern and the input
C19_CallsAreIndependent ==
    /\ pc \notin {"parse", "raised"} => tree = parse(pattern).tree
    /\ pc \in {"to_dfa", "expand", "match", "done"} =>
          \E r \in {_to_nfa(tree, {0}, 1)} :
              /\ nfa = r.graph
              /\ target_states = r.ends
    /\ pc \in {"match", "done"} => DfaOf(nfa, dfa)
    /\ pc = "done" =>
          result = (NfaReachable(_to_nfa(parse(pattern).tree, {0}, 1).graph, data)
                       \cap _to_nfa(parse(pattern).tree, {0}, 1).ends # {})

\* C19's case: to_nfa returned in a call for 'ab' made after a call for 'a*'
\* that had returned true, whose dfa is still there
C19_Witness ==
    /\ pc = "to_dfa"
    /\ pattern = <<"a", "b">>
    /\ dfa = ({0} :> [a |-> {0}])
    /\ result
    /\ DOMAIN nfa = {0, 1}

\* the items on the queue, each with its priority and its number
Queued(q) ==
    UNION {{[priority |-> p, data |-> q[p][i]] : i \in 1..Len(q[p])} : p \in DOMAIN q}

\* the item get has to return: of the smallest priority, and among those the
\* one put first
FirstOf(items) ==
    CHOOSE i \in items : \A o \in items :
        \/ i.priority < o.priority
        \/ i.priority = o.priority /\ i.data <= o.data

\* C20: with no limit set, a get on a queue that holds items returns the item
\* of the smallest priority, among those of equal priority the one put first,
\* and takes that item and no other from the queue
C20_GetOrder ==
    [][(got' # got /\ _limits = EmptyDict /\ Queued(queue) # {}) =>
          /\ got'.kind = "item"
          /\ [priority |-> got'.priority, data |-> got'.data] = FirstOf(Queued(queue))
          /\ Queued(queue') = Queued(queue) \ {FirstOf(Queued(queue))}]_vars

\* C20's case: with no limit set, get returned the first of two items of
\* priority 0 and left the second, while an item of priority 1 put before both
\* waits
C20_Witness ==
    /\ _limits = EmptyDict
    /\ got = [kind |-> "item", priority |-> 0, data |-> 2]
    /\ Queued(queue) = {[priority |-> 1, data |-> 1], [priority |-> 0, data |-> 3]}

\* the items a limit lets through
Fetchable(q, limit) == {i \in Queued(q) : \A l \in limit : i.priority <= l}

\* C21: while a limit L is in force a get returns no item of a priority above
\* L, and returns the first of the items up to L; it raises Empty when every
\* item is above L; the items above L stay on the queue through such gets and
\* through every change of the limits, and once no limit is in force get
\* returns them in priority order
C21_Limit ==
    [][/\ got' # got =>
            IF Fetchable(queue, get_limit(_limits)) = {}
            THEN /\ got'.kind = "Empty"
                 /\ queue' = queue
            ELSE /\ got'.kind = "item"
                 /\ \A l \in get_limit(_limits) : got'.priority <= l
                 /\ [priority |-> got'.priority, data |-> got'.data]
                       = FirstOf(Fetchable(queue, get_limit(_limits)))
                 /\ Queued(queue') = Queued(queue) \ {FirstOf(Fetchable(queue, get_limit(_limits)))}
       /\ _limits' # _limits => queue' = queue]_vars

\* C21's case: under the limit 0 get returned the item of priority 0 and then
\* raised Empty, and the item of priority 1 is still on the queue
C21_Witness ==
    /\ _limits = (BaseKey :> 0)
    /\ got.kind = "Empty"
    /\ puts = 2
    /\ Queued(queue) = {[priority |-> 1, data |-> 2]}

\* the limits in place: the base limit and those of the contexts entered
LimitsInPlace(limits) == {limits[k] : k \in DOMAIN limits}

\* the lowest of a set of limits, None (the empty set) when there is none
Lowest(L) == {l \in L : \A m \in L : l <= m}

\* the limits in place outside the context c
Outside(limits, c) == {limits[k] : k \in DOMAIN limits \ {c}}

\* C22: the effective limit is at every moment the lowest of the base limit
\* and of the limits of the contexts entered, None when there are none;
\* leaving a context takes that context's limit away and no other, after
\* which the effective limit is the one in effect outside the context
C22_NestedLimits ==
    /\ [](get_limit(_limits) = Lowest(LimitsInPlace(_limits)))
    /\ [][\A c \in (DOMAIN _limits \ DOMAIN _limits') \ {BaseKey} :
             /\ DOMAIN _limits' = DOMAIN _limits \ {c}
             /\ \A k \in DOMAIN _limits' : _limits'[k] = _limits[k]
             /\ get_limit(_limits') = Lowest(Outside(_limits, c))]_vars

\* C22's case: inside the base limit 1, a context of limit 0 and within it a
\* context of limit -1, a get raised Empty although an item of priority 0 is
\* on the queue
C22_Witness ==
    /\ _limits = (BaseKey :> 1) @@ (1 :> 0) @@ (2 :> 0 - 1)
    /\ got.kind = "Empty"
    /\ Queued(queue) = {[priority |-> 0, data |-> 1]}

\* C23: right after a clean(destroy=False) that returned True the pool has an
\* available resource
C23_CleanMakesAvailable ==
    (returned = [op |-> "clean", destroy |-> FALSE, value |-> "True"])
        => available(ThePool) # <<>>

\* C23's failing case: the only resource was adopted in use and put back;
\* clean(destroy=False) returned True and the resource is still in used and in
\* cleaning, so none is available
C23_FailingInput ==
    /\ returned = [op |-> "clean", destroy |-> FALSE, value |-> "True"]
    /\ members = <<1>>
    /\ used = {1}
    /\ cleaning = {1}
    /\ to_clean = <<>>
    /\ available(ThePool) = <<>>

\* the states an edge of a graph leads to
Destinations(graph) ==
    UNION {UNION {graph[s][x] : x \in DOMAIN graph[s]} : s \in DOMAIN graph}

\* what _to_nfa returned for the child of the kleene in tree
ChildNfa == _to_nfa(tree.children[1], starts, FirstId)

\* C24: after _to_nfa compiled a kleene from the start set S, the end states
\* are S, and for every end state e of the child outside S: e is neither a key
\* nor a destination of the graph, every edge that led to e leads to every
\* state of S, and every input e had an edge on is an input of every state
\* of S
C24_KleeneCompilation ==
    (pc = "compiled" /\ tree.kind = "kleene") =>
        /\ target_states = starts
        /\ \A e \in ChildNfa.ends \ starts :
              /\ e \notin DOMAIN nfa
              /\ e \notin Destinations(nfa)
              /\ \A s \in DOMAIN ChildNfa.graph \cap DOMAIN nfa :
                    \A x \in DOMAIN ChildNfa.graph[s] :
                        e \in ChildNfa.graph[s][x] =>
                            (x \in DOMAIN nfa[s] /\ starts \subseteq nfa[s][x])
              /\ \A x \in DOMAIN GetDict(ChildNfa.graph, e) :
                    \A s \in starts : x \in DOMAIN GetDict(nfa, s)

\* C24's failing case: 'a*' compiled from the start set {0, 1}; the child's
\* edges on a led to its end state 3, and both lead to state 0 alone
C24_FailingInput ==
    /\ pc = "compiled"
    /\ tree = Kleene(Literal("a"))
    /\ starts = {0, 1}
    /\ ChildNfa.graph = (0 :> [a |-> {3}]) @@ (1 :> [a |-> {3}])
    /\ nfa = (0 :> [a |-> {0}]) @@ (1 :> [a |-> {0}])

\* the bounds a valid operator stands for: '?' is {0,1}, '*' is {0,}, '+' is
\* {1,}; Unbounded for no maximum
OpLeast(op) ==
    IF op = <<"+">> THEN 1
    ELSE IF Len(op) = 1 THEN 0
    ELSE DigitValue(op[2])

OpMost(op) ==
    IF op = <<"?">> THEN 1
    ELSE IF Len(op) = 1 \/ Len(op) = 4 THEN Unbounded
    ELSE IF Len(op) = 3 THEN DigitValue(op[2])
    ELSE DigitValue(op[4])

\* w is k strings of the language of t in a row
RECURSIVE MatchesTimes(_, _, _)
MatchesTimes(t, k, w) ==
    IF k = 0 THEN w = <<>>
    ELSE \E j \in 0..Len(w) :
            /\ Matches(t, SubSeq(w, 1, j))
            /\ MatchesTimes(t, k - 1, SubSeq(w, j + 1, Len(w)))

\* w is in the repeat, by the operator op, of the language of t; without a
\* maximum no more repeats than w has characters need be tried beyond the
\* minimum
MatchesRepeat(t, op, w) ==
    \E k \in OpLeast(op)..(IF OpMost(op) = Unbounded
                           THEN (IF Len(w) > OpLeast(op) THEN Len(w) ELSE OpLeast(op))
                           ELSE OpMost(op)) :
        MatchesTimes(t, k, w)

\* C25: the pattern x o1 o2, of a value x and two repeat operators, denotes
\* the repeat by o2 of the language of x o1
C25_RepeatOfRepeat ==
    pc = "parsed" =>
        \A x \in {<<"a">>, <<"(", "a", "b", ")">>} :
            \A o1 \in ValidOps : \A o2 \in ValidOps :
                pattern = x \o o1 \o o2 =>
                    \A w \in SeqsUpTo(DataChars, MaxData) :
                        Matches(tree, w) = MatchesRepeat(parse(x \o o1).tree, o2, w)

\* C25's failing case: 'a{2}*' parsed to 'a' followed by 'a*', whose language
\* holds 'a' and not the empty string
C25_FailingInput ==
    /\ pc = "parsed"
    /\ pattern = <<"a", "{", "2", "}", "*">>
    /\ tree = Concat(<<Literal("a"), Kleene(Literal("a"))>>)
    /\ Matches(tree, <<"a">>)
    /\ ~Matches(tree, <<>>)
    /\ ~MatchesRepeat(parse(<<"a", "{", "2", "}">>).tree, <<"*">>, <<"a">>)

\* C26: the tree parse returns, which is _simplify of the tree _parse built,
\* denotes the language of the tree _parse built
C26_SimplifyKeepsLanguage ==
    pc = "parsed" =>
        \A w \in MatchData : Matches(tree, w) = Matches(_parse(pattern).tree, w)

\* C26's failing case: the class '[^$-}]' leaves out every character, _parse
\* built an alternate without children for it, which no string matches, and
\* _simplify made of it the empty concat, which the empty string matches
C26_FailingInput ==
    /\ pc = "parsed"
    /\ pattern = NegatedRangePattern("$", "}")
    /\ _parse(pattern).tree = Alternate(<<Concat(<<Alternate(<<>>)>>)>>)
    /\ tree = EmptyConcat
    /\ Matches(tree, <<>>)
    /\ ~Matches(_parse(pattern).tree, <<>>)

\* the subsets the recorded transitions of d lead to from the subsets of S
RECURSIVE ReachableKeys(_, _)
ReachableKeys(d, S) ==
    LET next == S \cup UNION {{d[s][c] : c \in DOMAIN d[s]} : s \in S \cap DOMAIN d}
    IN  IF next = S THEN S ELSE ReachableKeys(d, next)

\* C27: the keys of the dfa _to_dfa returned are the subsets reachable from
\* {0}: {0} is a key, every destination of a recorded transition is a key,
\* every key is reached from {0} by recorded transitions, and every key is a
\* non-empty set of nfa states
C27_DfaKeys ==
    pc \in {"match", "done"} =>
        /\ {0} \in DOMAIN dfa
        /\ \A s \in DOMAIN dfa : \A c \in DOMAIN dfa[s] : dfa[s][c] \in DOMAIN dfa
        /\ DOMAIN dfa = ReachableKeys(dfa, {{0}})
        /\ \A s \in DOMAIN dfa : s # {} /\ s \subseteq NfaStates(nfa)

\* C27's case: _to_dfa returned a dfa of three subsets or more, one of them of
\* two nfa states or more, for a graph with a state that alone is no subset
C27_Witness ==
    /\ pc = "match"
    /\ Cardinality(DOMAIN dfa) >= 3
    /\ \E s \in DOMAIN dfa : Cardinality(s) >= 2
    /\ \E n \in DOMAIN nfa : {n} \notin DOMAIN dfa

\* the literal compilations of _to_nfa(tree, starts, next_state), in the order
\* they are made: the id next_state() returned, the symbol and the start set
RECURSIVE LiteralCalls(_, _, _)
RECURSIVE LiteralCallsOfConcat(_, _, _)
RECURSIVE LiteralCallsOfAlternate(_, _, _)

LiteralCalls(t, S, next_state) ==
    IF t.kind = "literal" THEN <<[id |-> next_state, value |-> t.value, starts |-> S]>>
    ELSE IF t.kind = "kleene" THEN LiteralCalls(t.children[1], S, next_state)
    ELSE IF t.kind = "concat" THEN LiteralCallsOfConcat(t.children, S, next_state)
    ELSE LiteralCallsOfAlternate(t.children, S, next_state)

LiteralCallsOfConcat(children, S, next_state) ==
    IF children = <<>> THEN <<>>
    ELSE LET r == _to_nfa(Head(children), S, next_state)
         IN  LiteralCalls(Head(children), S, next_state)
                \o LiteralCallsOfConcat(Tail(children), r.ends, r.next_state)

LiteralCallsOfAlternate(children, S, next_state) ==
    IF children = <<>> THEN <<>>
    ELSE LET r == _to_nfa(Head(children), S, next_state)
         IN  LiteralCalls(Head(children), S, next_state)
                \o LiteralCallsOfAlternate(Tail(children), S, r.next_state)

RECURSIVE ContainsKleene(_)
ContainsKleene(t) ==
    \/ t.kind = "kleene"
    \/ \E i \in 1..Len(t.children) : ContainsKleene(t.children[i])

\* C28: within a to_nfa call the literal compilations get the ids 1, 2, ...
\* in order, each above every id handed out before and outside its start
\* set, so no two literals share an end state; the states of the graph are 0
\* and ids handed out; each compilation returns its id as end state and an
\* edge on its symbol from every state of its start set to it, and these
\* edges are in the graph to_nfa returns when no kleene merged states
C28_FreshIds ==
    pc = "to_dfa" =>
        LET calls == LiteralCalls(tree, {0}, 1) IN
        /\ Len(calls) = CountLiterals(tree)
        /\ \A i \in 1..Len(calls) :
              /\ calls[i].id = i
              /\ calls[i].id \notin calls[i].starts
              /\ \A j \in 1..(i - 1) : calls[j].id < calls[i].id
              /\ \E r \in {_to_nfa(Literal(calls[i].value), calls[i].starts, calls[i].id)} :
                    /\ r.ends = {calls[i].id}
                    /\ DOMAIN r.graph = calls[i].starts
                    /\ \A s \in calls[i].starts :
                          r.graph[s] = [c \in {calls[i].value} |-> {calls[i].id}]
              /\ ~ContainsKleene(tree) =>
                    \A s \in calls[i].starts :
                        /\ s \in DOMAIN nfa
                        /\ calls[i].value \in DOMAIN nfa[s]
                        /\ calls[i].id \in nfa[s][calls[i].value]
        /\ (NfaStates(nfa) \cup target_states) \ {0} \subseteq 1..Len(calls)

\* C28's case: to_nfa returned for 'a{2,3}', whose tree holds three copies of
\* the literal a, with the end states 1, 2 and 3
C28_Witness ==
    /\ pc = "to_dfa"
    /\ pattern = <<"a", "{", "2", ",", "3", "}">>
    /\ CountLiterals(tree) = 3
    /\ nfa = (0 :> [a |-> {1}]) @@ (1 :> [a |-> {2}]) @@ (2 :> [a |-> {3}])
    /\ target_states = {2, 3}

\* the states the kleene merges of _to_nfa(tree, starts, next_state) delete:
\* for each kleene, the end states of its child that are not start states
RECURSIVE DeletedStates(_, _, _)
RECURSIVE DeletedOfConcat(_, _, _)
RECURSIVE DeletedOfAlternate(_, _, _)

DeletedStates(t, S, next_state) ==
    IF t.kind = "literal" THEN {}
    ELSE IF t.kind = "kleene"
    THEN DeletedStates(t.children[1], S, next_state)
            \cup (_to_nfa(t.children[1], S, next_state).ends \ S)
    ELSE IF t.kind = "concat" THEN DeletedOfConcat(t.children, S, next_state)
    ELSE DeletedOfAlternate(t.children, S, next_state)

DeletedOfConcat(children, S, next_state) ==
    IF children = <<>> THEN {}
    ELSE LET r == _to_nfa(Head(children), S, next_state)
         IN  DeletedStates(Head(children), S, next_state)
                \cup DeletedOfConcat(Tail(children), r.ends, r.next_state)

DeletedOfAlternate(children, S, next_state) ==
    IF children = <<>> THEN {}
    ELSE LET r == _to_nfa(Head(children), S, next_state)
         IN  DeletedStates(Head(children), S, next_state)
                \cup DeletedOfAlternate(Tail(children), S, r.next_state)

\* C29: every state that is a destination of an edge of the nfa to_nfa
\* returned, or in its accepting set, is state 0 or an id handed out that no
\* kleene merge deleted; no deleted state is a key; and no destination set is
\* empty
C29_NoDanglingStates ==
    pc = "to_dfa" =>
        /\ \A s \in Destinations(nfa) \cup target_states :
              \/ s = 0
              \/ /\ s \in 1..CountLiterals(tree)
                 /\ s \notin DeletedStates(tree, {0}, 1)
        /\ DOMAIN nfa \cap DeletedStates(tree, {0}, 1) = {}
        /\ \A s \in DOMAIN nfa : \A c \in DOMAIN nfa[s] : nfa[s][c] # {}

\* C29's case: to_nfa returned for 'a*b': the merge of the kleene deleted
\* state 1, the end of 'a', and the edge on a that led to it leads to 0
C29_Witness ==
    /\ pc = "to_dfa"
    /\ pattern = <<"a", "*", "b">>
    /\ DeletedStates(tree, {0}, 1) = {1}
    /\ nfa = (0 :> [a |-> {0}, b |-> {2}])
    /\ target_states = {2}

\* the walk of the dfa d on w from {0}: the subset it ends in, or the subset at
\* which it found no transition
RECURSIVE DfaWalk(_, _)
DfaWalk(d, w) ==
    IF w = <<>> THEN [missing |-> FALSE, state |-> {0}]
    ELSE LET r == DfaWalk(d, SubSeq(w, 1, Len(w) - 1))
         IN  IF r.missing THEN r
             ELSE IF r.state \in DOMAIN d /\ w[Len(w)] \in DOMAIN d[r.state]
             THEN [missing |-> FALSE, state |-> d[r.state][w[Len(w)]]]
             ELSE [missing |-> TRUE, state |-> r.state]

\* C30: when _match finds no transition for its subset and the next character
\* it returns false in that step; hence match(p, u + v) is false whenever the
\* walk on u finds a transition missing
C30_RejectionAbsorbs ==
    /\ [][(/\ pc = "match"
           /\ pos < Len(data)
           /\ state \in DOMAIN dfa
           /\ data[pos + 1] \notin DOMAIN dfa[state])
             => (pc' = "done" /\ result' = FALSE /\ pos' = pos)]_vars
    /\ [](pc = "done" =>
             \A k \in 0..Len(data) :
                 DfaWalk(dfa, SubSeq(data, 1, k)).missing => result = FALSE)

\* C30's case: match('a*', 'aba') returned false after two characters: the
\* walk on 'ab' found no transition, and the 'a' that follows was not read
C30_Witness ==
    /\ pc = "done"
    /\ pattern = <<"a", "*">>
    /\ data = <<"a", "b", "a">>
    /\ pos = 1
    /\ state = {0}
    /\ DfaWalk(dfa, <<"a", "b">>).missing
    /\ ~result

====
